---- MODULE Spec2Model ----
(***************************************************************************)
(* A model of the glTF serializer of the 3DB converter,                    *)
(* python3/lib/export.py: export_to_gltf and the helpers it calls.         *)
(*                                                                         *)
(* Representation.                                                         *)
(*   - Text (animation, material and node names) is a sequence of          *)
(*     one-character strings, so that str.replace, str.strip and the       *)
(*     f-string formats are computed character by character.               *)
(*   - A float is represented by twice its value (an integer "half"):      *)
(*     0, 0.5 and 1 are 0, 1 and 2.  Every float of the model is a dyadic  *)
(*     rational that both Python's double and the packed float32 hold      *)
(*     exactly.                                                            *)
(*   - Python lists are 1-based TLA+ sequences; a Python index i is the    *)
(*     TLA+ index i + 1.                                                   *)
(***************************************************************************)
EXTENDS Integers, Sequences, FiniteSets, TLC

(***************************************************************************)
(* Bounds of the model.                                                    *)
(***************************************************************************)
\* largest number of links of a mesh
MaxLinks == 2
\* largest number of animations of a model
MaxAnims == 2
\* largest total number of frames (entries of animation.meshes) of a model
MaxFrames == 2

(***************************************************************************)
(* Text helpers: Python's str operations on sequences of characters.       *)
(***************************************************************************)
DigitChars == <<"0", "1", "2", "3", "4", "5", "6", "7", "8", "9">>

RECURSIVE Decimal(_)
\* str(n) for n >= 0
Decimal(n) ==
    IF n < 10 THEN <<DigitChars[n + 1]>>
    ELSE Decimal(n \div 10) \o <<DigitChars[(n % 10) + 1]>>

RECURSIVE ZeroPad(_, _)
\* left-pads s with "0" to at least w characters
ZeroPad(s, w) == IF Len(s) >= w THEN s ELSE ZeroPad(<<"0">> \o s, w)

\* format(n, "0{w}d") for n >= 0
FormatInt(n, w) == ZeroPad(Decimal(n), w)

\* s.startswith(old)
StartsWith(s, old) ==
    /\ Len(old) <= Len(s)
    /\ SubSeq(s, 1, Len(old)) = old

RECURSIVE Remove(_, _)
\* s.replace(old, ""): the non-overlapping occurrences of old, left to right
Remove(s, old) ==
    IF s = <<>> THEN <<>>
    ELSE IF StartsWith(s, old) THEN Remove(SubSeq(s, Len(old) + 1, Len(s)), old)
    ELSE <<Head(s)>> \o Remove(Tail(s), old)

IsSpace(c) == c \in {" ", "\t", "\n", "\r"}

RECURSIVE LStrip(_)
LStrip(s) == IF s # <<>> /\ IsSpace(Head(s)) THEN LStrip(Tail(s)) ELSE s

RECURSIVE RStrip(_)
RStrip(s) ==
    IF s # <<>> /\ IsSpace(s[Len(s)]) THEN RStrip(SubSeq(s, 1, Len(s) - 1)) ELSE s

\* s.strip()
Strip(s) == RStrip(LStrip(s))

\* s.replace("b'", "").replace("'", "").strip()
CleanName(s) == Strip(Remove(Remove(s, <<"b", "'">>), <<"'">>))

(***************************************************************************)
(* struct.pack: the little-endian bytes of a float32 and of a uint32.      *)
(***************************************************************************)
\* 2^k for k in 0..23
Pow2(k) ==
    << 1, 2, 4, 8, 16, 32, 64, 128, 256, 512, 1024, 2048, 4096, 8192, 16384,
       32768, 65536, 131072, 262144, 524288, 1048576, 2097152, 4194304,
       8388608 >>[k + 1]

RECURSIVE Log2(_)
\* the e with 2^e <= a < 2^(e+1), for a >= 1
Log2(a) == IF a < 2 THEN 0 ELSE 1 + Log2(a \div 2)

Abs(h) == IF h < 0 THEN -h ELSE h

\* struct.pack('f', value) for the float value = h / 2: sign bit, biased
\* exponent (8 bits) and the 23 bits of the fraction, low byte first
pack_f(h) ==
    IF h = 0 THEN <<0, 0, 0, 0>>
    ELSE LET sign == IF h < 0 THEN 1 ELSE 0
             e    == Log2(Abs(h))
             expo == 127 + e - 1
             frac == (Abs(h) * Pow2(23 - e)) - Pow2(23)
         IN  << frac % 256,
                (frac \div 256) % 256,
                ((expo % 2) * 128) + (frac \div 65536),
                (sign * 128) + (expo \div 2) >>

\* struct.unpack('f', b): the half h = 2 * value of the float32 with bytes b
unpack_f(b) ==
    IF b = <<0, 0, 0, 0>> THEN 0
    ELSE LET sign == b[4] \div 128
             expo == ((b[4] % 128) * 2) + (b[3] \div 128)
             frac == ((b[3] % 128) * 65536) + (b[2] * 256) + b[1]
             e    == expo - 127 + 1
             mag  == (Pow2(23) + frac) \div Pow2(23 - e)
         IN  IF sign = 1 THEN -mag ELSE mag

\* struct.pack('I', index)
pack_I(i) ==
    << i % 256, (i \div 256) % 256, (i \div 65536) % 256, (i \div 16777216) % 256 >>

\* struct.unpack('I', b)
unpack_I(b) == b[1] + (256 * b[2]) + (65536 * b[3]) + (16777216 * b[4])

RECURSIVE FlattenFrom(_, _)
FlattenFrom(ss, i) == IF i > Len(ss) THEN <<>> ELSE ss[i] \o FlattenFrom(ss, i + 1)

\* the concatenation of a sequence of sequences
Flatten(ss) == FlattenFrom(ss, 1)

\* the bytes appended by
\*   for vertex in vertices: for value in vertex: extend(struct.pack('f', value))
PackFloats(tuples) ==
    Flatten([k \in 1..Len(tuples) |->
                Flatten([j \in 1..Len(tuples[k]) |-> pack_f(tuples[k][j])])])

\* the bytes appended by  for index in triangles: extend(struct.pack('I', index))
PackIndices(triangles) ==
    Flatten([k \in 1..Len(triangles) |-> pack_I(triangles[k])])

(***************************************************************************)
(* The Model handed to export_to_gltf (lib.parse_3db.Model, as the         *)
(* serializer reads it): materials (name, path), meshes (links), animations*)
(* (name, meshes) and the three pools points_data, triangle_data and       *)
(* texture_coordinates_data.                                               *)
(***************************************************************************)
Walk == <<"w", "a", "l", "k">>
Idle == <<"i", "d", "l", "e">>
AnimNames == {Walk, Idle}

Skin == [name |-> <<"s", "k", "i", "n">>,
         path |-> <<"t", "e", "x", "\\", "s", "k", "i", "n", ".", "t", "g", "a">>]
\* a name holding a quote, which the clean-up of the names removes
Fur  == [name |-> <<"f", "u", "r", "'", "s">>, path |-> <<"f", ".", "t", "g", "a">>]

\* the material tables of the inputs: none, one and two materials
MaterialTables == {<<>>, <<Skin>>, <<Skin, Fur>>}

\* points pool (floats as halves): the triangle (0,0,0) (1,0,0) (0,1,0), a
\* single point (0.5, 1, 0) and an empty entry; index 3 is out of range
PointsPool ==
    << << <<0, 0, 0>>, <<2, 0, 0>>, <<0, 2, 0>> >>,
       << <<1, 2, 0>> >>,
       << >> >>

\* triangles pool: one triangle and an empty entry; index 2 is out of range
TrianglesPool == << <<0, 1, 2>>, << >> >>

\* UV pool: three UVs (0,0) (1,0) (0,1) and a single UV (1, 0.5); index 2 is
\* out of range
UVPool ==
    << << <<0, 0>>, <<2, 0>>, <<0, 2>> >>,
       << <<2, 1>> >> >>

MeshLink(m, p, t, uv) ==
    [material |-> m, points |-> p, triangles |-> t, texture_coordinates |-> uv]

\* links whose pool references resolve to non-empty arrays: every material
\* index up to one past the largest table, every pairing of a points entry
\* with a UV entry (equal, shorter and longer UV arrays)
GoodLinks ==
    {MeshLink(m, 0, 0, 0) : m \in 0..2}
        \cup {MeshLink(0, p, 0, uv) : p \in 0..1, uv \in 0..1}

\* links with one bad pool reference: empty or out-of-range points, empty or
\* out-of-range triangles, out-of-range UVs
BadLinks ==
    {MeshLink(0, p, 0, 0) : p \in 2..3}
        \cup {MeshLink(0, 0, t, 0) : t \in 1..2}
        \cup {MeshLink(0, 0, 0, 2)}

LinkSet == GoodLinks \cup BadLinks

\* the sequences over S of length at most n
SeqUpTo(S, n) == UNION {[1..k -> S] : k \in 0..n}

MkModel(mats, meshes, anims) ==
    [materials |-> mats, meshes |-> meshes, animations |-> anims,
     points_data |-> PointsPool, triangle_data |-> TrianglesPool,
     texture_coordinates_data |-> UVPool]

\* models that vary the links of one mesh, shown at one frame or at two
LinkModels ==
    {MkModel(mats, <<[links |-> ls]>>, <<[name |-> Walk, meshes |-> fr]>>) :
        mats \in MaterialTables,
        ls \in SeqUpTo(LinkSet, MaxLinks),
        fr \in {<<0>>, <<0, 0>>}}

\* the meshes of the models that vary the animations: a mesh of two links
\* bound to different materials and pool entries, and a mesh whose only link
\* has an empty points array; mesh index 2 is out of range
AnimMeshes ==
    << [links |-> <<MeshLink(0, 0, 0, 0), MeshLink(1, 1, 0, 1)>>],
       [links |-> <<MeshLink(0, 2, 0, 0)>>] >>

RECURSIVE SumLen(_)
SumLen(ss) == IF ss = <<>> THEN 0 ELSE Len(Head(ss)) + SumLen(Tail(ss))

\* the animation tables: at most MaxAnims animations with MaxFrames frames in
\* all, each frame a mesh index in 0..2
AnimTables ==
    UNION {
        {[k \in 1..n |-> [name |-> names[k], meshes |-> frames[k]]] :
            names \in [1..n -> AnimNames],
            frames \in {fs \in [1..n -> SeqUpTo(0..2, MaxFrames)] :
                            SumLen(fs) <= MaxFrames}} :
        n \in 0..MaxAnims}

\* models that vary the animations over fixed meshes and materials
AnimModels == {MkModel(<<Skin, Fur>>, AnimMeshes, anims) : anims \in AnimTables}

\* the model of the concrete scenario: one material "skin", one mesh of one
\* link (material 0, pool entries 0) and one animation "idle" with meshes [0]
ScenarioModel ==
    MkModel(<<Skin>>, <<[links |-> <<MeshLink(0, 0, 0, 0)>>]>>,
            <<[name |-> Idle, meshes |-> <<0>>]>>)

Models == LinkModels \cup AnimModels \cup {ScenarioModel}

(***************************************************************************)
(* transform_point and the pure part of the body of the link loop.         *)
(***************************************************************************)
\* the scale of transform_point
scale == 100

\* transform_point without the shift by 0.5
transform_point_NoShift(p) == << p[1] * scale, p[2] * scale, p[3] * scale >>

\* transform_point(p) = ((p[0] - 0.5) * scale, ...); on halves the 0.5 is 1
transform_point(p) ==
    << (p[1] - 1) * scale, (p[2] - 1) * scale, (p[3] - 1) * scale >>

\* pool[i] raises IndexError unless 0 <= i < len(pool)
InRange(pool, i) == i >= 0 /\ i < Len(pool)

\* pool[i] of Python
At(pool, i) == pool[i + 1]

\* n copies of x:  [x] * n
Repeat(x, n) == [k \in 1..n |-> x]

\* MaxAxis taken from the first vertex alone
MaxAxis_First(vertices, i) == vertices[1][i]

\* min / max of the i-th components of the vertices
MinAxis(vertices, i) ==
    CHOOSE v \in {vertices[k][i] : k \in 1..Len(vertices)} :
        \A k \in 1..Len(vertices) : v <= vertices[k][i]
MaxAxis(vertices, i) ==
    CHOOSE v \in {vertices[k][i] : k \in 1..Len(vertices)} :
        \A k \in 1..Len(vertices) : v >= vertices[k][i]

\* the three lookups that open the try block; any of them out of range
\* raises IndexError, caught by "except Exception"
LookupFails(m, mesh_link) ==
    \/ ~InRange(m.triangle_data, mesh_link.triangles)
    \/ ~InRange(m.points_data, mesh_link.points)
    \/ ~InRange(m.texture_coordinates_data, mesh_link.texture_coordinates)

\* ReconciledUV without the padding branch: a shorter UV array is left as it is
ReconciledUV_TruncateOnly(texture_coordinates, n) ==
    IF Len(texture_coordinates) < n THEN texture_coordinates
    ELSE SubSeq(texture_coordinates, 1, n)

\* the local texture_coordinates after the reconciliation with the vertices:
\* extended with (0.0, 0.0) when shorter, sliced when longer
ReconciledUV(texture_coordinates, n) ==
    IF Len(texture_coordinates) < n
    THEN texture_coordinates \o Repeat(<<0, 0>>, n - Len(texture_coordinates))
    ELSE SubSeq(texture_coordinates, 1, n)

\* the UV pool entry after the reconciliation: list.extend works in place on
\* the list object held by the pool, the slice builds a new list and leaves
\* the pool's list alone
PoolEntryAfter(texture_coordinates, n) ==
    IF Len(texture_coordinates) < n
    THEN texture_coordinates \o Repeat(<<0, 0>>, n - Len(texture_coordinates))
    ELSE texture_coordinates

\* BoundMaterial without the fallback: the link's index is used as it is
BoundMaterial_Keep(m, mesh_link) == mesh_link.material

\* the material index of the primitive: the link's, or 0 when it is not an
\* index of model.materials
BoundMaterial(m, mesh_link) ==
    IF mesh_link.material >= Len(m.materials) THEN 0 ELSE mesh_link.material

\* the material name used in the node name
NodeMaterialName(m, material_index) ==
    IF material_index < Len(m.materials)
    THEN CleanName(At(m.materials, material_index).name)
    ELSE <<>>

\* the frame field of a node name
FrameField(frame_index) ==
    <<"f", "r", "a", "m", "e">> \o FormatInt(frame_index, 2)

\* node_name = f"{anim_name}_{anim_idx:02d}_frame{frame_idx:02d}_{material_name}"
\* followed by the clean-up of the whole name
NodeName(anim_name, anim_index, frame_index, material_name) ==
    CleanName(anim_name \o <<"_">> \o FormatInt(anim_index, 2) \o <<"_">>
              \o FrameField(frame_index) \o <<"_">> \o material_name)

(***************************************************************************)
(* The output lists and byte arrays of export_to_gltf as one record, and   *)
(* what the body of the link loop appends to them for a link it emits.     *)
(***************************************************************************)
EmptyOut ==
    [nodes |-> <<>>, meshes |-> <<>>, accessors |-> <<>>,
     vertex_byte_array |-> <<>>, index_byte_array |-> <<>>]

\* the link is dropped by one of the "continue" statements of the try block
LinkSkipped(m, mesh_link) ==
    \/ LookupFails(m, mesh_link)
    \/ At(m.points_data, mesh_link.points) = <<>>
    \/ At(m.triangle_data, mesh_link.triangles) = <<>>

\* StartOffsets with the UV offset taken before the positions are appended
StartOffsets_StaleUV(o, vertex_bytes) ==
    [vertex_data_start    |-> Len(o.vertex_byte_array),
     texture_coords_start |-> Len(o.vertex_byte_array),
     indices_start        |-> Len(o.index_byte_array)]

\* vertex_data_start, texture_coords_start and indices_start: the lengths of
\* the streams before the positions, the UVs and the indices are appended
StartOffsets(o, vertex_bytes) ==
    [vertex_data_start    |-> Len(o.vertex_byte_array),
     texture_coords_start |-> Len(o.vertex_byte_array) + Len(vertex_bytes),
     indices_start        |-> Len(o.index_byte_array)]

\* the output after the link is emitted with the list texture_coordinates as
\* it stands when the UVs are packed: vertex bytes, bounds, UV bytes, index
\* bytes, three accessors, a mesh of one primitive and a node
EmittedWith(o, m, anim_index, frame_index, mesh_link, texture_coordinates) ==
    LET triangles == At(m.triangle_data, mesh_link.triangles)
        points    == At(m.points_data, mesh_link.points)
        vertices  == [k \in 1..Len(points) |-> transform_point(points[k])]
        vertex_bytes == PackFloats(vertices)
        start == StartOffsets(o, vertex_bytes)
        mins == [i \in 1..3 |-> MinAxis(vertices, i)]
        maxs == [i \in 1..3 |-> MaxAxis(vertices, i)]
        position_index == Len(o.accessors)
        texture_coords_index == position_index + 1
        indices_index == position_index + 2
        material_index == BoundMaterial(m, mesh_link)
        mesh_index == Len(o.meshes)
        material_name == NodeMaterialName(m, material_index)
        anim_name == At(m.animations, anim_index).name
    IN  [nodes |-> Append(o.nodes,
            [mesh |-> mesh_index,
             name |-> NodeName(anim_name, anim_index, frame_index, material_name)]),
         meshes |-> Append(o.meshes,
            [POSITION |-> position_index, TEXCOORD_0 |-> texture_coords_index,
             indices |-> indices_index, material |-> material_index]),
         accessors |-> o.accessors \o
            << [bufferView |-> 0, byteOffset |-> start.vertex_data_start,
                componentType |-> "FLOAT", count |-> Len(vertices),
                type |-> "VEC3", min |-> mins, max |-> maxs],
               [bufferView |-> 0, byteOffset |-> start.texture_coords_start,
                componentType |-> "FLOAT", count |-> Len(texture_coordinates),
                type |-> "VEC2", min |-> <<>>, max |-> <<>>],
               [bufferView |-> 1, byteOffset |-> start.indices_start,
                componentType |-> "UNSIGNED_INT", count |-> Len(triangles),
                type |-> "SCALAR", min |-> <<>>, max |-> <<>>] >>,
         vertex_byte_array |->
            o.vertex_byte_array \o vertex_bytes \o PackFloats(texture_coordinates),
         index_byte_array |-> o.index_byte_array \o PackIndices(triangles)]

\* the output after the link is emitted by a call that runs alone: the UVs
\* packed are the reconciled ones
Emitted(o, m, anim_index, frame_index, mesh_link) ==
    EmittedWith(o, m, anim_index, frame_index, mesh_link,
        ReconciledUV(At(m.texture_coordinates_data, mesh_link.texture_coordinates),
                     Len(At(m.points_data, mesh_link.points))))

\* ModelAfter when the vertices are transformed in place: the points pool
\* entry holds the transformed points afterwards
ModelAfter_InPlace(m, mesh_link) ==
    [m EXCEPT !.points_data[mesh_link.points + 1] =
        [k \in 1..Len(@) |-> transform_point(@[k])]]

\* ModelAfter when a longer UV array is cut in place as well
\* (del texture_coordinates[len(vertices):]): the pool entry is left padded
\* or cut to the number of vertices
ModelAfter_CutInPlace(m, mesh_link) ==
    [m EXCEPT !.texture_coordinates_data[mesh_link.texture_coordinates + 1] =
        ReconciledUV(@, Len(At(m.points_data, mesh_link.points)))]

\* the model after the link is emitted: the UV pool entry the link refers to
\* is the list object that was extended
ModelAfter(m, mesh_link) ==
    [m EXCEPT !.texture_coordinates_data[mesh_link.texture_coordinates + 1] =
        PoolEntryAfter(@, Len(At(m.points_data, mesh_link.points)))]

\* the materials list built before the loops: one entry per model material
MaterialEntries(m) ==
    [k \in 1..Len(m.materials) |->
        [name |-> <<"m", "a", "t", "e", "r", "i", "a", "l", "_">>
                    \o FormatInt(k - 1, 2) \o <<"_">> \o m.materials[k].name,
         extras |-> [original_index |-> k - 1,
                     original_name |-> m.materials[k].name]]]

\* dict[key] += 1, or dict[key] = first when the key is absent
Bump(dict, key, first) ==
    [k \in DOMAIN dict \cup {key} |->
        IF k = key THEN (IF key \in DOMAIN dict THEN dict[key] + 1 ELSE first)
        ELSE dict[k]]

RECURSIVE CountNames(_, _)
\* anim_name_counts after the counting loop over the animations
CountNames(anims, dict) ==
    IF anims = <<>> THEN dict
    ELSE CountNames(Tail(anims), Bump(dict, Head(anims).name, 1))

(***************************************************************************)
(* The state of one call export_to_gltf(model).                            *)
(***************************************************************************)
VARIABLES
    model,              \* the Model object, as it is now
    model_in,           \* the Model as it was when the call started
    pc,                 \* where the call stands
    anim_idx, frame_idx, link_idx,   \* the loop variables
    materials, nodes, meshes, accessors,
    vertex_byte_array, index_byte_array,
    anim_name_counts, anim_name_indexer,
    warnings,           \* the warnings and errors printed so far
    emitted,            \* for node k (0-based), emitted[k+1] tells its link
    gltf_model,         \* the GLTFModel built after the loops
    files,              \* the files written so far
    textures_on_disk,   \* the materials whose texture file the search finds
    stage,              \* where run.py's main stands
    first,              \* what the first export_to_gltf call of the run built
    fbx,                \* the objects written to the ASCII FBX file
    heap,               \* the Model objects two parallel calls work on
    threads,            \* the two parallel export_to_gltf calls
    load,               \* the loading of the input file by run.py's main
    MATERIAL_CACHE,     \* material_cache.py: cache key -> material
    cache_added,        \* the material last added for each pair since the last clear
    cache_lookup,       \* the last call of get_cached_material and what it returned
    blender,            \* the scene process_gltf_structure works on, and its locals
    binary              \* export_to_fbx_binary: its locals, the subprocess, the clock

\* the state of the modules that run inside Blender
BlenderVars == <<MATERIAL_CACHE, cache_added, cache_lookup, blender, binary>>

vars == <<model, model_in, pc, anim_idx, frame_idx, link_idx, materials, nodes,
          meshes, accessors, vertex_byte_array, index_byte_array,
          anim_name_counts, anim_name_indexer, warnings, emitted, gltf_model,
          files, textures_on_disk, stage, first, fbx, heap, threads, load,
          BlenderVars>>

Out ==
    [nodes |-> nodes, meshes |-> meshes, accessors |-> accessors,
     vertex_byte_array |-> vertex_byte_array,
     index_byte_array |-> index_byte_array]

\* the locals of an export_to_gltf call that stands at position, with
\* nothing built or written yet
CallState(position) ==
    /\ model_in = model
    /\ pc = position
    /\ anim_idx = 0 /\ frame_idx = 0 /\ link_idx = 0
    /\ materials = <<>> /\ nodes = <<>> /\ meshes = <<>> /\ accessors = <<>>
    /\ vertex_byte_array = <<>> /\ index_byte_array = <<>>
    /\ anim_name_counts = <<>> /\ anim_name_indexer = <<>>
    /\ warnings = <<>> /\ emitted = <<>>
    /\ gltf_model = <<>>
    /\ files = {}
    /\ stage = "gltf"
    /\ first = <<>>
    /\ fbx = <<>>

\* the modules that run inside Blender are not loaded
BlenderIdle ==
    /\ MATERIAL_CACHE = <<>>
    /\ cache_added = <<>>
    /\ cache_lookup = <<>>
    /\ blender = <<>>
    /\ binary = <<>>

\* run.py's main has decoded the model and calls export_to_gltf(model, ...);
\* no other call runs beside it
StartOfRun ==
    /\ BlenderIdle
    /\ CallState("copy_textures")
    /\ heap = <<>>
    /\ threads = <<>>
    /\ load = <<>>

\* a run in a directory without texture files
Init ==
    /\ model \in Models
    /\ textures_on_disk = {}
    /\ StartOfRun

\* a run in a directory where the texture files of some materials are found
InitFiles ==
    /\ model \in Models
    /\ textures_on_disk \in SUBSET (0..(Len(model.materials) - 1))
    /\ StartOfRun

animation == At(model.animations, anim_idx)
mesh_idx  == At(animation.meshes, frame_idx)
mesh      == At(model.meshes, mesh_idx)
mesh_link == At(mesh.links, link_idx)

Warn(kind) ==
    Append(warnings, [kind |-> kind, anim |-> anim_idx, frame |-> frame_idx,
                      link |-> link_idx])

\* AfterFrame with the bound of the frame loop off by one: the last frame of
\* an animation is never reached
AfterFrame_DropLast(a, f) ==
    IF f + 2 < Len(At(model.animations, a).meshes)
    THEN [pc |-> "next_frame", a |-> a, f |-> f + 1, l |-> 0]
    ELSE [pc |-> "next_animation", a |-> a + 1, f |-> 0, l |-> 0]

\* the loop variables after the frame loop moves past frame f of animation a
AfterFrame(a, f) ==
    IF f + 1 < Len(At(model.animations, a).meshes)
    THEN [pc |-> "next_frame", a |-> a, f |-> f + 1, l |-> 0]
    ELSE [pc |-> "next_animation", a |-> a + 1, f |-> 0, l |-> 0]

\* AfterLink with "break" in place of "continue": the links after link l of
\* the frame are not visited
AfterLink_Break(a, f, l) == AfterFrame(a, f)

\* the loop variables after the link loop moves past link l
AfterLink(a, f, l) ==
    IF l + 1 < Len(mesh.links)
    THEN [pc |-> "next_link", a |-> a, f |-> f, l |-> l + 1]
    ELSE AfterFrame(a, f)

Goto(pos) ==
    /\ pc' = pos.pc
    /\ anim_idx' = pos.a /\ frame_idx' = pos.f /\ link_idx' = pos.l

OutputUnchanged ==
    UNCHANGED <<nodes, meshes, accessors, vertex_byte_array, index_byte_array,
                emitted>>

\* what a step of the run leaves alone: the parallel calls and the loading
Elsewhere == UNCHANGED <<heap, threads, load, BlenderVars>>

\* what a step of export_to_gltf leaves alone outside the call
CallFrame ==
    /\ UNCHANGED <<textures_on_disk, stage, first, fbx>>
    /\ Elsewhere

\* the directory export_to_gltf writes to: that of run.py's call, or the
\* temporary directory of export_to_fbx_binary's call
export_dir == IF stage = "gltf" THEN "exports/gltf" ELSE "temp_dir"

\* a file of directory dir; material tells whose texture it is (-1: none)
File(dir, name, material) == [dir |-> dir, name |-> name, material |-> material]

\* texture_map = copy_textures_for_export(model, export_dir): the textures
\* of the materials whose file is found are copied to export_dir/textures
CopyTextures ==
    /\ pc = "copy_textures"
    /\ files' = files \cup
            {File(export_dir, "textures", i) :
                i \in textures_on_disk \cap (0..(Len(model.materials) - 1))}
    /\ pc' = "materials"
    /\ UNCHANGED <<model, model_in, anim_idx, frame_idx, link_idx, materials,
                   anim_name_counts, anim_name_indexer, warnings, gltf_model>>
    /\ OutputUnchanged
    /\ CallFrame

\* for i, material in enumerate(model.materials): materials.append(...)
BuildMaterials ==
    /\ pc = "materials"
    /\ materials' = MaterialEntries(model)
    /\ pc' = "count_names"
    /\ UNCHANGED <<model, model_in, anim_idx, frame_idx, link_idx,
                   anim_name_counts, anim_name_indexer, warnings, gltf_model>>
    /\ OutputUnchanged
    /\ UNCHANGED files
    /\ CallFrame

\* the loop that fills anim_name_counts, and the duplicate names warning
CountAnimationNames ==
    /\ pc = "count_names"
    /\ anim_name_counts' = CountNames(model.animations, <<>>)
    /\ warnings' =
        IF \E n \in DOMAIN anim_name_counts' : anim_name_counts'[n] > 1
        THEN Warn("duplicate_animation_names") ELSE warnings
    /\ pc' = "next_animation"
    /\ UNCHANGED <<model, model_in, anim_idx, frame_idx, link_idx, materials,
                   anim_name_indexer, gltf_model>>
    /\ OutputUnchanged
    /\ UNCHANGED files
    /\ CallFrame

\* the head of the animation loop: the occurrence counter of the name
BeginAnimation ==
    /\ pc = "next_animation"
    /\ anim_idx < Len(model.animations)
    /\ anim_name_indexer' = Bump(anim_name_indexer, animation.name, 0)
    /\ IF animation.meshes = <<>>
       THEN Goto([pc |-> "next_animation", a |-> anim_idx + 1, f |-> 0, l |-> 0])
       ELSE Goto([pc |-> "next_frame", a |-> anim_idx, f |-> 0, l |-> 0])
    /\ UNCHANGED <<model, model_in, materials, anim_name_counts, warnings,
                   gltf_model>>
    /\ OutputUnchanged
    /\ UNCHANGED files
    /\ CallFrame

\* if mesh_idx >= len(model.meshes): print warning; continue
SkipFrame ==
    /\ pc = "next_frame"
    /\ mesh_idx >= Len(model.meshes)
    /\ warnings' = Warn("mesh_index_out_of_range")
    /\ Goto(AfterFrame(anim_idx, frame_idx))
    /\ UNCHANGED <<model, model_in, materials, anim_name_counts,
                   anim_name_indexer, gltf_model>>
    /\ OutputUnchanged
    /\ UNCHANGED files
    /\ CallFrame

\* mesh = model.meshes[mesh_idx], and the link loop starts
BeginFrame ==
    /\ pc = "next_frame"
    /\ mesh_idx < Len(model.meshes)
    /\ IF mesh.links = <<>>
       THEN Goto(AfterFrame(anim_idx, frame_idx))
       ELSE Goto([pc |-> "next_link", a |-> anim_idx, f |-> frame_idx, l |-> 0])
    /\ UNCHANGED <<model, model_in, materials, anim_name_counts,
                   anim_name_indexer, warnings, gltf_model>>
    /\ OutputUnchanged
    /\ UNCHANGED files
    /\ CallFrame

LinkFrame ==
    /\ UNCHANGED <<model_in, materials, anim_name_counts, anim_name_indexer,
                   gltf_model, files>>
    /\ CallFrame

\* one of the three pool lookups raises IndexError: the except clause prints
\* the error and continues with the next link
SkipLinkError ==
    /\ pc = "next_link"
    /\ LookupFails(model, mesh_link)
    /\ warnings' = Warn("error_processing_mesh")
    /\ Goto(AfterLink(anim_idx, frame_idx, link_idx))
    /\ UNCHANGED model
    /\ OutputUnchanged
    /\ LinkFrame

\* SkipEmptyPoints with the Mesh of the link appended before the check: the
\* skipped link leaves a mesh that no node refers to
SkipEmptyPoints_KeepMesh ==
    /\ pc = "next_link"
    /\ ~LookupFails(model, mesh_link)
    /\ At(model.points_data, mesh_link.points) = <<>>
    /\ warnings' = Warn("empty_points")
    /\ Goto(AfterLink(anim_idx, frame_idx, link_idx))
    /\ meshes' = Append(meshes,
            [POSITION |-> Len(accessors), TEXCOORD_0 |-> Len(accessors) + 1,
             indices |-> Len(accessors) + 2,
             material |-> BoundMaterial(model, mesh_link)])
    /\ UNCHANGED <<model, nodes, accessors, vertex_byte_array, index_byte_array,
                   emitted>>
    /\ LinkFrame

\* if not points: print warning; continue
SkipEmptyPoints ==
    /\ pc = "next_link"
    /\ ~LookupFails(model, mesh_link)
    /\ At(model.points_data, mesh_link.points) = <<>>
    /\ warnings' = Warn("empty_points")
    /\ Goto(AfterLink(anim_idx, frame_idx, link_idx))
    /\ UNCHANGED model
    /\ OutputUnchanged
    /\ LinkFrame

\* SkipEmptyTriangles with the check placed after the vertex bytes were
\* appended: the skipped link leaves its vertices in the stream
SkipEmptyTriangles_AfterAppend ==
    /\ pc = "next_link"
    /\ ~LookupFails(model, mesh_link)
    /\ At(model.points_data, mesh_link.points) # <<>>
    /\ At(model.triangle_data, mesh_link.triangles) = <<>>
    /\ warnings' = Warn("empty_triangles")
    /\ Goto(AfterLink(anim_idx, frame_idx, link_idx))
    /\ vertex_byte_array' = vertex_byte_array \o
            PackFloats([k \in 1..Len(At(model.points_data, mesh_link.points)) |->
                transform_point(At(model.points_data, mesh_link.points)[k])])
    /\ UNCHANGED <<model, nodes, meshes, accessors, index_byte_array, emitted>>
    /\ LinkFrame

\* if not triangles: print warning; continue
SkipEmptyTriangles ==
    /\ pc = "next_link"
    /\ ~LookupFails(model, mesh_link)
    /\ At(model.points_data, mesh_link.points) # <<>>
    /\ At(model.triangle_data, mesh_link.triangles) = <<>>
    /\ warnings' = Warn("empty_triangles")
    /\ Goto(AfterLink(anim_idx, frame_idx, link_idx))
    /\ UNCHANGED model
    /\ OutputUnchanged
    /\ LinkFrame

\* the warnings of an emitted link: the UV count mismatch, then the invalid
\* material index
EmitWarnings ==
    LET w1 == IF Len(At(model.texture_coordinates_data,
                        mesh_link.texture_coordinates))
                 # Len(At(model.points_data, mesh_link.points))
              THEN <<"uv_count_mismatch">> ELSE <<>>
        w2 == IF mesh_link.material >= Len(model.materials)
              THEN <<"invalid_material_index">> ELSE <<>>
        ks == w1 \o w2
    IN  warnings \o [k \in 1..Len(ks) |->
            [kind |-> ks[k], anim |-> anim_idx, frame |-> frame_idx,
             link |-> link_idx]]

\* the rest of the loop body: the link is emitted.  (The last check of the
\* try block, "if not vertices", cannot succeed here: vertices has one entry
\* per point and points is not empty.)
EmitLink ==
    /\ pc = "next_link"
    /\ ~LinkSkipped(model, mesh_link)
    /\ LET o == Emitted(Out, model, anim_idx, frame_idx, mesh_link)
       IN  /\ nodes' = o.nodes
           /\ meshes' = o.meshes
           /\ accessors' = o.accessors
           /\ vertex_byte_array' = o.vertex_byte_array
           /\ index_byte_array' = o.index_byte_array
    /\ model' = ModelAfter(model, mesh_link)
    /\ warnings' = EmitWarnings
    /\ emitted' = Append(emitted,
            [anim |-> anim_idx, frame |-> frame_idx, link |-> link_idx,
             mesh_link |-> mesh_link])
    /\ Goto(AfterLink(anim_idx, frame_idx, link_idx))
    /\ LinkFrame

\* gltf_model = GLTFModel(...): the scene, the two buffers and buffer views,
\* and gltf.export(output_path): the document and the two .bin files
Finish ==
    /\ pc = "next_animation"
    /\ anim_idx >= Len(model.animations)
    /\ gltf_model' =
        [scenes |-> <<[nodes |-> [k \in 1..Len(nodes) |-> k - 1]]>>,
         buffers |-> <<[byteLength |-> Len(vertex_byte_array)],
                       [byteLength |-> Len(index_byte_array)]>>,
         bufferViews |->
            <<[buffer |-> 0, byteOffset |-> 0,
               byteLength |-> Len(vertex_byte_array)],
              [buffer |-> 1, byteOffset |-> 0,
               byteLength |-> Len(index_byte_array)]>>,
         materials |-> materials]
    /\ files' = files \cup {File(export_dir, "model.gltf", -1),
                             File(export_dir, "vertices.bin", -1),
                             File(export_dir, "indices.bin", -1)}
    /\ pc' = "done"
    /\ UNCHANGED <<model, model_in, anim_idx, frame_idx, link_idx, materials,
                   anim_name_counts, anim_name_indexer, warnings>>
    /\ OutputUnchanged
    /\ CallFrame


(***************************************************************************)
(* The serializer as a function of the model: the links of the frames      *)
(* whose mesh index is in range, in the order of the three loops, and the  *)
(* output of the loop body folded over them.                               *)
(***************************************************************************)
WorkList(m) ==
    Flatten([a \in 1..Len(m.animations) |->
        Flatten([f \in 1..Len(m.animations[a].meshes) |->
            IF m.animations[a].meshes[f] >= Len(m.meshes) THEN <<>>
            ELSE LET ls == At(m.meshes, m.animations[a].meshes[f]).links
                 IN  [l \in 1..Len(ls) |->
                        [anim |-> a - 1, frame |-> f - 1, link |-> l - 1,
                         mesh_link |-> ls[l]]]])])

RECURSIVE ExportFrom(_, _, _)
ExportFrom(m, work, o) ==
    IF work = <<>> THEN o
    ELSE LET w == Head(work)
         IN  IF LinkSkipped(m, w.mesh_link)
             THEN ExportFrom(m, Tail(work), o)
             ELSE ExportFrom(ModelAfter(m, w.mesh_link), Tail(work),
                             Emitted(o, m, w.anim, w.frame, w.mesh_link))

\* the nodes, meshes, accessors and byte arrays export_to_gltf builds for m
Export(m) == ExportFrom(m, WorkList(m), EmptyOut)

(***************************************************************************)
(* The rest of run.py's main: export_to_fbx_binary, which exports the      *)
(* model to glTF once more for Blender, and the ASCII exporter             *)
(* export_to_fbx, taken with --ascii-only, without Blender, or when        *)
(* Blender fails.                                                          *)
(***************************************************************************)
\* one object written to the FBX file
FbxObject(kind, id, size) == [kind |-> kind, id |-> id, size |-> size]

geom_id(w)  == 3000 + (w.anim * 1000) + (w.frame * 100) + w.link
model_id(w) == 4000 + (w.anim * 1000) + (w.frame * 100) + w.link

\* the Material objects written before the loops
FbxMaterials(m) ==
    [k \in 1..Len(m.materials) |-> FbxObject("Material", 1000 + (k - 1), 0)]

\* the link loops of create_fbx_ascii over the links of the frames whose mesh
\* index is in range: the three pool lookups, the Geometry and the Model of
\* the link, then model.materials[link.material]; a lookup out of range
\* raises IndexError, which nothing catches
RECURSIVE FbxLinks(_, _, _)
FbxLinks(m, work, objects) ==
    IF work = <<>> THEN [objects |-> objects, raised |-> FALSE]
    ELSE LET w == Head(work)
             geometry == objects \o
                << FbxObject("Geometry", geom_id(w),
                             3 * Len(At(m.points_data, w.mesh_link.points))),
                   FbxObject("Model", model_id(w), 0) >>
         IN  IF LookupFails(m, w.mesh_link)
             THEN [objects |-> objects, raised |-> TRUE]
             ELSE IF w.mesh_link.material >= Len(m.materials)
             THEN [objects |-> geometry, raised |-> TRUE]
             ELSE FbxLinks(m, Tail(work), geometry \o
                    <<FbxObject("Material", 1000 + w.mesh_link.material, 0)>>)

\* create_fbx_ascii(model, output_path): the objects written to the file,
\* with the connections of the links at the end, and whether it raised
create_fbx_ascii(m) ==
    LET links == FbxLinks(m, WorkList(m), FbxMaterials(m))
        work  == WorkList(m)
    IN  IF links.raised THEN links
        ELSE [objects |-> links.objects \o
                [k \in 1..Len(work) |->
                    FbxObject("Connection", geom_id(work[k]), model_id(work[k]))],
              raised |-> FALSE]

\* export_to_fbx(model, fbx_output_path) as the last step of the run: the
\* file is opened for writing and holds what was written when the call raised
export_to_fbx ==
    /\ fbx' = create_fbx_ascii(model).objects
    /\ files' = files \cup
            {File("exports/fbx", "textures", i) :
                i \in textures_on_disk \cap (0..(Len(model.materials) - 1))}
            \cup {File("exports/fbx", "model.fbx", -1)}
    /\ stage' = IF create_fbx_ascii(model).raised THEN "aborted" ELSE "completed"
    /\ UNCHANGED <<model, model_in, pc, anim_idx, frame_idx, link_idx, materials,
                   anim_name_counts, anim_name_indexer, warnings, gltf_model,
                   textures_on_disk, first>>
    /\ OutputUnchanged
    /\ Elsewhere

\* run.py: export_to_gltf has returned and --ascii-only is given
FbxAsciiOnly ==
    /\ stage = "gltf"
    /\ pc = "done"
    /\ export_to_fbx

\* export_to_fbx_binary finds no Blender and falls back to export_to_fbx
FbxWithoutBlender ==
    /\ stage = "gltf"
    /\ pc = "done"
    /\ export_to_fbx

\* export_to_fbx_binary finds Blender and calls export_to_gltf(model,
\* temp_gltf_path) on the Model object the first call worked on; the lists,
\* byte arrays and name counters of the call are new objects
FbxBinaryExportGltf ==
    /\ stage = "gltf"
    /\ pc = "done"
    /\ stage' = "fbx_binary"
    /\ first' = [out |-> Out, model |-> model_in]
    /\ model_in' = model
    /\ pc' = "copy_textures"
    /\ anim_idx' = 0 /\ frame_idx' = 0 /\ link_idx' = 0
    /\ materials' = <<>> /\ nodes' = <<>> /\ meshes' = <<>> /\ accessors' = <<>>
    /\ vertex_byte_array' = <<>> /\ index_byte_array' = <<>>
    /\ anim_name_counts' = <<>> /\ anim_name_indexer' = <<>>
    /\ warnings' = <<>> /\ emitted' = <<>>
    /\ gltf_model' = <<>>
    /\ UNCHANGED <<model, files, textures_on_disk, fbx>>
    /\ Elsewhere

\* Blender converts the temporary glTF file to the binary FBX file
BlenderSucceeds ==
    /\ stage = "fbx_binary"
    /\ pc = "done"
    /\ stage' = "completed"
    /\ files' = files \cup {File("exports/fbx", "model.fbx", -1)}
    /\ UNCHANGED <<model, model_in, pc, anim_idx, frame_idx, link_idx, materials,
                   anim_name_counts, anim_name_indexer, warnings, gltf_model,
                   textures_on_disk, first, fbx>>
    /\ OutputUnchanged
    /\ Elsewhere

\* Blender fails or times out: export_to_fbx_binary falls back to
\* export_to_fbx (and calls it once more in its except clause when it raises)
BlenderFails ==
    /\ stage = "fbx_binary"
    /\ pc = "done"
    /\ export_to_fbx

(***************************************************************************)
(* The loading of the input file: run.py's main reads the whole file and   *)
(* hands the bytes to parse_3db_file.  The Binary Reader wraps the bytes   *)
(* and a cursor; every read fails with TruncatedInput when fewer bytes     *)
(* remain than requested, and a failed reader stays failed.  The decoder   *)
(* reads, in order: the name, the material table, the three pools, the     *)
(* mesh table and the animation table; every table and every array is      *)
(* prefixed with its count, every string with its length, all integers are *)
(* 32 bits wide and little-endian.  No count is compared with the bytes    *)
(* that remain: the read that runs out of bytes is the one that fails.     *)
(***************************************************************************)
MaxTable == 1

NoError == "none"

Reader(bytes) == [bytes |-> bytes, cursor |-> 0, error |-> NoError, high |-> 0]

remaining(r) == Len(r.bytes) - r.cursor

\* a read that has failed, or that was made on a failed reader
Failed(r, error) == [r |-> [r EXCEPT !.error = error], ok |-> FALSE, value |-> <<>>]

\* high is the number of the last byte any read has looked at
read_fixed_bytes(r, n) ==
    IF r.error # NoError THEN Failed(r, r.error)
    ELSE IF remaining(r) < n THEN Failed(r, "TruncatedInput")
    ELSE [r |-> [r EXCEPT !.cursor = @ + n,
                          !.high = IF n > 0 THEN r.cursor + n ELSE @],
          ok |-> TRUE,
          value |-> SubSeq(r.bytes, r.cursor + 1, r.cursor + n)]

read_u32(r) ==
    LET b == read_fixed_bytes(r, 4)
    IN  IF b.ok THEN [b EXCEPT !.value = unpack_I(@)] ELSE b

read_f32(r) ==
    LET b == read_fixed_bytes(r, 4)
    IN  IF b.ok THEN [b EXCEPT !.value = unpack_f(@)] ELSE b

read_length_prefixed_string(r) ==
    LET n == read_u32(r)
    IN  IF n.ok THEN read_fixed_bytes(n.r, n.value) ELSE n

\* what the file holds for a value of some kind: a count and then that many
\* values of one kind, or the parts of a tuple or (with names) of a record
Counted(kind) == [counted |-> TRUE, of |-> kind, parts |-> <<>>, names |-> <<>>]

Parts(kinds, names) ==
    [counted |-> FALSE, of |-> "", parts |-> kinds, names |-> names]

Layout(kind) ==
    CASE kind = "vec3"      -> Parts(<<"f32", "f32", "f32">>, <<>>)
      [] kind = "vec2"      -> Parts(<<"f32", "f32">>, <<>>)
      [] kind = "points"    -> Counted("vec3")
      [] kind = "triangles" -> Counted("u32")
      [] kind = "uvs"       -> Counted("vec2")
      [] kind = "material"  -> Parts(<<"string", "string">>, <<"name", "path">>)
      [] kind = "link"      ->
            Parts(<<"u32", "u32", "u32", "u32">>,
                  <<"material", "points", "triangles", "texture_coordinates">>)
      [] kind = "links"     -> Counted("link")
      [] kind = "mesh"      -> Parts(<<"string", "links">>, <<"name", "links">>)
      [] kind = "indices"   -> Counted("u32")
      [] kind = "animation" -> Parts(<<"string", "indices">>, <<"name", "meshes">>)
      [] kind = "materials" -> Counted("material")
      [] kind = "points_data"   -> Counted("points")
      [] kind = "triangle_data" -> Counted("triangles")
      [] kind = "texture_coordinates_data" -> Counted("uvs")
      [] kind = "meshes"     -> Counted("mesh")
      [] kind = "animations" -> Counted("animation")
      [] kind = "model"      ->
            Parts(<<"string", "materials", "points_data", "triangle_data",
                    "texture_coordinates_data", "meshes", "animations">>,
                  <<"name", "materials", "points_data", "triangle_data",
                    "texture_coordinates_data", "meshes", "animations">>)

\* the tuple v as it is, or the record with the given names for its parts
Named(names, v) ==
    IF names = <<>> THEN v
    ELSE [f \in {names[k] : k \in 1..Len(names)} |->
            v[CHOOSE k \in 1..Len(names) : names[k] = f]]

RECURSIVE ReadValue(_, _)
\* n values, the k-th of kind kinds[k] (or all of kind of), one after the
\* other, each from where the one before it ended; ok tells whether all n
\* were read, and value holds the values read before the one that failed
ReadValues(r, n, of, kinds) ==
    LET after[k \in 0..n] ==
            IF k = 0 THEN [r |-> r, ok |-> r.error = NoError, value |-> <<>>]
            ELSE LET before == after[k - 1]
                     x      == ReadValue(before.r, IF kinds = <<>> THEN of ELSE kinds[k])
                 IN  IF ~before.ok THEN before
                     ELSE IF ~x.ok THEN [x EXCEPT !.value = before.value]
                     ELSE [x EXCEPT !.value = Append(before.value, x.value)]
    IN  after[n]

\* a value of some kind, read as its layout says
ReadValue(r, kind) ==
    CASE kind = "u32"    -> read_u32(r)
      [] kind = "f32"    -> read_f32(r)
      [] kind = "string" -> read_length_prefixed_string(r)
      [] OTHER ->
            LET n == IF Layout(kind).counted THEN read_u32(r)
                     ELSE [r |-> r, ok |-> TRUE, value |-> Len(Layout(kind).parts)]
                x == ReadValues(n.r, n.value, Layout(kind).of, Layout(kind).parts)
            IN  IF ~n.ok THEN n
                ELSE IF ~x.ok THEN x
                ELSE [x EXCEPT !.value = Named(Layout(kind).names, @)]

\* the fields of the file in their order
ReadModel(r) == ReadValue(r, "model")

None == <<>>

\* decode handing back, with the error, the fields of the Model read so far
decode_Partial(bytes) ==
    LET d == ReadModel(Reader(bytes))
    IN  [ok |-> d.ok, error |-> d.r.error, model |-> d.value, high |-> d.r.high]

\* decode(bytes): the Model, or the error and no Model
decode(bytes) ==
    LET d == ReadModel(Reader(bytes))
    IN  IF d.ok
        THEN [ok |-> TRUE, error |-> NoError, model |-> d.value, high |-> d.r.high]
        ELSE [ok |-> FALSE, error |-> d.r.error, model |-> None, high |-> d.r.high]

\* the bytes of a file that holds model m: what the decoder reads, written
WriteString(s) == pack_I(Len(s)) \o s

RECURSIVE WriteValue(_, _)
WriteValue(x, kind) ==
    CASE kind = "u32"    -> pack_I(x)
      [] kind = "f32"    -> pack_f(x)
      [] kind = "string" -> WriteString(x)
      [] OTHER ->
            LET l == Layout(kind)
            IN  (IF l.counted THEN pack_I(Len(x)) ELSE <<>>)
                \o Flatten([k \in 1..(IF l.counted THEN Len(x) ELSE Len(l.parts)) |->
                        WriteValue(IF l.names = <<>> THEN x[k] ELSE x[l.names[k]],
                                   IF l.counted THEN l.of ELSE l.parts[k])])

WellFormedFile(m) == WriteValue(m, "model")

\* a model with nm materials "skin" of path "t\s.tga", one mesh "b" of nl
\* links and one animation "idle" of nf frames, as it stands in a file "m"
FileModel(nm, nl, nf) ==
    [name |-> <<109>>,
     materials |-> [k \in 1..nm |->
                        [name |-> <<115, 107, 105, 110>>,
                         path |-> <<116, 92, 115, 46, 116, 103, 97>>]],
     points_data |-> <<PointsPool[2]>>,
     triangle_data |-> <<TrianglesPool[1]>>,
     texture_coordinates_data |-> <<UVPool[2]>>,
     meshes |-> <<[name |-> <<98>>,
                   links |-> [k \in 1..nl |-> MeshLink(k - 1, 0, 0, 0)]]>>,
     animations |-> <<[name |-> <<105, 100, 108, 101>>, meshes |-> [k \in 1..nf |-> 0]]>>]

FileModels ==
    {FileModel(nm, nl, nf) : nm \in 0..MaxTable, nl \in 0..MaxTable,
                             nf \in 0..MaxTable}

\* main is about to read a file that holds a model, whole or cut after any
\* number of its bytes; whole and stored remember the file before the cut
InitDecode ==
    /\ BlenderIdle
    /\ model = <<>>
    /\ textures_on_disk = {}
    /\ CallState("not_called")
    /\ heap = <<>>
    /\ threads = <<>>
    /\ \E m \in FileModels :
        \E n \in 0..Len(WellFormedFile(m)) :
            load = [pc |-> "loading",
                    file_data |-> SubSeq(WellFormedFile(m), 1, n),
                    whole |-> Len(WellFormedFile(m)),
                    stored |-> m,
                    result |-> None,
                    export_model |-> None]

LoadFrame == UNCHANGED <<model, model_in, pc, anim_idx, frame_idx, link_idx,
                         materials, nodes, meshes, accessors, vertex_byte_array,
                         index_byte_array, anim_name_counts, anim_name_indexer,
                         warnings, emitted, gltf_model, files, textures_on_disk,
                         stage, first, fbx, heap, threads, BlenderVars>>

\* file_data = f.read(); model = parse_3db_file(file_data): an error of the
\* decoder ends main, nothing after the call runs
ParseFile ==
    /\ load # <<>>
    /\ load.pc = "loading"
    /\ LET result == decode(load.file_data)
       IN  load' = [load EXCEPT !.result = result,
                                !.pc = IF result.ok THEN "parsed" ELSE "raised"]
    /\ LoadFrame

\* --list-animations: the summary is printed and main returns
ListAnimations ==
    /\ load # <<>>
    /\ load.pc = "parsed"
    /\ load' = [load EXCEPT !.pc = "listed"]
    /\ LoadFrame

\* args.animation when the option --animation is not given
NoSelection == 0 - 1

\* the choice of the model to export, and the call of export_to_gltf
StartExport ==
    /\ load # <<>>
    /\ load.pc = "parsed"
    /\ \E selected \in {NoSelection} \cup (0..MaxTable) :
        LET decoded == load.result.model
        IN  load' =
            IF selected = NoSelection
            THEN [load EXCEPT !.pc = "exporting", !.export_model = decoded]
            ELSE IF selected >= Len(decoded.animations)
            THEN [load EXCEPT !.pc = "returned"]
            ELSE [load EXCEPT !.pc = "exporting",
                              !.export_model =
                                  [decoded EXCEPT !.animations =
                                      <<At(decoded.animations, selected)>>]]
    /\ LoadFrame

NextDecode ==
    \/ ParseFile
    \/ ListAnimations
    \/ StartExport

SpecDecode == InitDecode /\ [][NextDecode]_vars

(***************************************************************************)
(* Two export_to_gltf calls running in parallel as threads of one process, *)
(* on two Model objects or on one.  A thread can be switched out between   *)
(* any two bytecodes; the steps below are the stretches of the loop body   *)
(* between the accesses to the UV list that matter: the lookups and checks *)
(* up to the evaluation of the argument of extend (or the slice), the call *)
(* of extend, and the packing of the link.  The lists, byte arrays and     *)
(* counters of a call are its own; the Model object and the lists of its   *)
(* pools are reached by reference.                                         *)
(***************************************************************************)
Threads == {1, 2}

\* the links two parallel calls are tried on: equal, shorter and longer UV
\* arrays over shared pool entries, and a link with an empty points array
ParallelLinks ==
    {MeshLink(0, 0, 0, 0), MeshLink(0, 0, 0, 1), MeshLink(0, 1, 0, 1),
     MeshLink(0, 2, 0, 0)}

ParallelModels ==
    {MkModel(<<Skin>>, <<[links |-> ls]>>, <<[name |-> Walk, meshes |-> <<0>>]>>) :
        ls \in SeqUpTo(ParallelLinks, MaxLinks)}

\* a call that has not looked at its first link yet
ThreadStart(obj, m) ==
    [obj |-> obj, given |-> m, position |-> 1, pc |-> "lookup",
     alias |-> TRUE, texture_coordinates |-> <<>>, pad |-> 0, out |-> EmptyOut]

\* both calls are about to start: on one Model object, or on two objects
\* decoded from the same file
InitParallel ==
    /\ BlenderIdle
    /\ model = <<>>
    /\ textures_on_disk = {}
    /\ CallState("not_called")
    /\ load = <<>>
    /\ \E m \in ParallelModels, shared \in BOOLEAN :
        /\ heap = <<m, m>>
        /\ threads = [t \in Threads |->
                        ThreadStart(IF shared THEN 1 ELSE t, m)]

\* the Model object of thread t, its work and the link it stands at
ThreadModel(t) == heap[threads[t].obj]
ThreadWork(t)  == WorkList(threads[t].given)
ThreadLink(t)  == ThreadWork(t)[threads[t].position].mesh_link

ThreadFrame == UNCHANGED <<model, model_in, pc, anim_idx, frame_idx, link_idx,
                           materials, nodes, meshes, accessors, vertex_byte_array,
                           index_byte_array, anim_name_counts, anim_name_indexer,
                           warnings, emitted, gltf_model, files, textures_on_disk,
                           stage, first, fbx, load, BlenderVars>>

\* the try block up to the reconciliation: the three lookups, the two
\* emptiness checks, the comparison of the lengths and either the evaluation
\* of the argument of extend, or the slice, or nothing
ThreadLookup(t) ==
    /\ threads[t].pc = "lookup"
    /\ threads[t].position <= Len(ThreadWork(t))
    /\ LET l  == ThreadLink(t)
           m  == ThreadModel(t)
           n  == Len(At(m.points_data, l.points))
           uv == At(m.texture_coordinates_data, l.texture_coordinates)
       IN  threads' = [threads EXCEPT ![t] =
            IF LinkSkipped(m, l)
            THEN [@ EXCEPT !.position = @ + 1]
            ELSE IF Len(uv) < n
            THEN [@ EXCEPT !.pc = "extend", !.alias = TRUE, !.pad = n - Len(uv)]
            ELSE IF Len(uv) > n
            THEN [@ EXCEPT !.pc = "pack", !.alias = FALSE,
                           !.texture_coordinates = SubSeq(uv, 1, n)]
            ELSE [@ EXCEPT !.pc = "pack", !.alias = TRUE]]
    /\ UNCHANGED heap
    /\ ThreadFrame

\* texture_coordinates.extend([(0.0, 0.0)] * pad) on the list of the pool
ThreadExtend(t) ==
    /\ threads[t].pc = "extend"
    /\ heap' = [heap EXCEPT
            ![threads[t].obj].texture_coordinates_data[
                ThreadLink(t).texture_coordinates + 1] =
                    @ \o Repeat(<<0, 0>>, threads[t].pad)]
    /\ threads' = [threads EXCEPT ![t].pc = "pack", ![t].pad = 0]
    /\ ThreadFrame

\* the rest of the loop body: the link is packed and its accessors, mesh
\* and node are appended, with the UV list as it stands now
ThreadPack(t) ==
    /\ threads[t].pc = "pack"
    /\ LET l  == ThreadLink(t)
           m  == ThreadModel(t)
           w  == ThreadWork(t)[threads[t].position]
           uv == IF threads[t].alias
                 THEN At(m.texture_coordinates_data, l.texture_coordinates)
                 ELSE threads[t].texture_coordinates
       IN  threads' = [threads EXCEPT ![t] =
            [@ EXCEPT !.pc = "lookup", !.position = @ + 1,
                      !.texture_coordinates = <<>>, !.alias = TRUE,
                      !.out = EmittedWith(@, m, w.anim, w.frame, l, uv)]]
    /\ UNCHANGED heap
    /\ ThreadFrame

\* the loops of the call have ended
ThreadFinish(t) ==
    /\ threads[t].pc = "lookup"
    /\ threads[t].position > Len(ThreadWork(t))
    /\ threads' = [threads EXCEPT ![t].pc = "done"]
    /\ UNCHANGED heap
    /\ ThreadFrame

NextParallel ==
    \E t \in Threads :
        \/ ThreadLookup(t)
        \/ ThreadExtend(t)
        \/ ThreadPack(t)
        \/ ThreadFinish(t)

SpecParallel == InitParallel /\ [][NextParallel]_vars

(***************************************************************************)
(* blender_modules/material_cache.py: the module-level dictionary          *)
(* MATERIAL_CACHE and the three functions that read and write it, called   *)
(* in any order with any material names and texture paths.                 *)
(***************************************************************************)
\* material names and texture paths; "|" may stand in both
CacheNames == {<<"a">>, <<"a", "|", "b">>}
CachePaths == {<<"c">>, <<"b", "|", "c">>}
CacheMaterials == {"mat_1", "mat_2"}

\* what dict.get returns for a key the dictionary does not hold
NoMaterial == "None"

\* cache_key = f"{material_name}|{texture_path}"
cache_key(material_name, texture_path) == material_name \o <<"|">> \o texture_path

\* the module is imported: the dictionary is empty and nothing was looked up
InitCache ==
    /\ model = <<>>
    /\ textures_on_disk = {}
    /\ CallState("not_called")
    /\ heap = <<>> /\ threads = <<>> /\ load = <<>>
    /\ MATERIAL_CACHE = <<>>
    /\ cache_added = [p \in CacheNames \X CachePaths |-> NoMaterial]
    /\ cache_lookup = <<>>
    /\ blender = <<>>
    /\ binary = <<>>

CacheFrame == UNCHANGED <<model, model_in, pc, anim_idx, frame_idx, link_idx,
                          materials, nodes, meshes, accessors, vertex_byte_array,
                          index_byte_array, anim_name_counts, anim_name_indexer,
                          warnings, emitted, gltf_model, files, textures_on_disk,
                          stage, first, fbx, heap, threads, load, blender,
                          binary>>

\* return MATERIAL_CACHE.get(cache_key); added remembers the material last
\* added for this pair when the call was made
get_cached_material(material_name, texture_path) ==
    /\ cache_lookup' =
        [material_name |-> material_name, texture_path |-> texture_path,
         returned |->
            IF cache_key(material_name, texture_path) \in DOMAIN MATERIAL_CACHE
            THEN MATERIAL_CACHE[cache_key(material_name, texture_path)]
            ELSE NoMaterial,
         added |-> cache_added[<<material_name, texture_path>>]]
    /\ UNCHANGED <<MATERIAL_CACHE, cache_added>>
    /\ CacheFrame

\* MATERIAL_CACHE[cache_key] = material
add_material_to_cache(material_name, texture_path, material) ==
    /\ MATERIAL_CACHE' =
        [k \in DOMAIN MATERIAL_CACHE \cup {cache_key(material_name, texture_path)} |->
            IF k = cache_key(material_name, texture_path) THEN material
            ELSE MATERIAL_CACHE[k]]
    /\ cache_added' = [cache_added EXCEPT ![<<material_name, texture_path>>] = material]
    /\ UNCHANGED cache_lookup
    /\ CacheFrame

\* MATERIAL_CACHE.clear()
clear_cache ==
    /\ MATERIAL_CACHE' = <<>>
    /\ cache_added' = [p \in CacheNames \X CachePaths |-> NoMaterial]
    /\ UNCHANGED cache_lookup
    /\ CacheFrame

NextCache ==
    \/ \E n \in CacheNames, t \in CachePaths : get_cached_material(n, t)
    \/ \E n \in CacheNames, t \in CachePaths, mat \in CacheMaterials :
            add_material_to_cache(n, t, mat)
    \/ clear_cache

SpecCache == InitCache /\ [][NextCache]_vars

(***************************************************************************)
(* blender_modules/hierarchy_builder.py: process_gltf_structure sorts the  *)
(* mesh objects of the imported scene by what extract_model_info makes of  *)
(* their names, files them in the animations dict and builds the hierarchy *)
(* of animation, frame and link objects.  An object is its position in     *)
(* the scene.  A dict is the sequence of its entries in insertion order.   *)
(***************************************************************************)

\* largest number of mesh objects of a scene
MaxObjects == 3

misc_anim == <<"m", "i", "s", "c">>

\* what extract_model_info returns for a name: the animation name, frame
\* and link number and material index it parsed, or None for the first
\* three (frame_num and link_num 0 - 1 stand for None)
ModelInfos ==
    [anim_name : {misc_anim, <<"w", "a", "l", "k">>}, frame_num : 0..1,
     link_num : {0}, material_index : {0 - 1}]
    \cup {[anim_name |-> None, frame_num |-> 0 - 1, link_num |-> 0 - 1,
           material_index |-> 0 - 1]}

\* if anim_name not in animations: animations[anim_name] = {};
\* if frame_num not in animations[anim_name]: animations[anim_name][frame_num] = [];
\* animations[anim_name][frame_num].append(entry)
append_link(animations, anim_name, frame_num, entry) ==
    LET named == IF \E a \in 1..Len(animations) : animations[a].anim_name = anim_name
                 THEN animations
                 ELSE Append(animations, [anim_name |-> anim_name, frames |-> <<>>])
        a == CHOOSE a \in 1..Len(named) : named[a].anim_name = anim_name
        frames == IF \E f \in 1..Len(named[a].frames) :
                            named[a].frames[f].frame_num = frame_num
                  THEN named[a].frames
                  ELSE Append(named[a].frames,
                              [frame_num |-> frame_num, objects |-> <<>>])
        f == CHOOSE f \in 1..Len(frames) : frames[f].frame_num = frame_num
    IN  [named EXCEPT ![a].frames =
            [frames EXCEPT ![f].objects = Append(@, entry)]]

\* process_gltf_structure is called on an imported scene of mesh objects
InitHierarchy ==
    /\ model = <<>>
    /\ textures_on_disk = {}
    /\ CallState("not_called")
    /\ heap = <<>> /\ threads = <<>> /\ load = <<>>
    /\ MATERIAL_CACHE = <<>> /\ cache_added = <<>> /\ cache_lookup = <<>>
    /\ binary = <<>>
    /\ \E scene \in SeqUpTo(ModelInfos, MaxObjects) :
        blender = [objects |-> scene, pc |-> "classify",
                   matched_objects |-> <<>>, unmatched_objects |-> <<>>,
                   animations |-> <<>>, created |-> <<>>,
                   parent |-> [k \in 1..Len(scene) |-> None],
                   anim |-> 1, frame |-> 1, link |-> 1]

HierarchyFrame ==
    UNCHANGED <<model, model_in, pc, anim_idx, frame_idx, link_idx,
                materials, nodes, meshes, accessors, vertex_byte_array,
                index_byte_array, anim_name_counts, anim_name_indexer,
                warnings, emitted, gltf_model, files, textures_on_disk,
                stage, first, fbx, heap, threads, load,
                MATERIAL_CACHE, cache_added, cache_lookup, binary>>

\* the loop over the mesh objects: an object whose name gave an animation
\* name, a frame number and a link number is matched, any other unmatched
ClassifyObjects ==
    /\ blender # <<>> /\ blender.pc = "classify"
    /\ LET parsed(k) == /\ blender.objects[k].anim_name # None
                        /\ blender.objects[k].frame_num # 0 - 1
                        /\ blender.objects[k].link_num # 0 - 1
       IN blender' =
            [blender EXCEPT
                !.matched_objects =
                    SelectSeq([k \in 1..Len(blender.objects) |-> k],
                              LAMBDA k : parsed(k)),
                !.unmatched_objects =
                    SelectSeq([k \in 1..Len(blender.objects) |-> k],
                              LAMBDA k : ~parsed(k)),
                !.pc = "process_matched_objects"]
    /\ HierarchyFrame

\* every matched object is filed as (obj, link_num, material_index) under
\* its animation and frame
process_matched_objects ==
    /\ blender # <<>> /\ blender.pc = "process_matched_objects"
    /\ LET filed[n \in 0..Len(blender.matched_objects)] ==
            IF n = 0 THEN blender.animations
            ELSE LET obj == blender.matched_objects[n]
                     info == blender.objects[obj]
                 IN append_link(filed[n - 1], info.anim_name, info.frame_num,
                                <<obj, info.link_num, info.material_index>>)
       IN blender' =
            [blender EXCEPT
                !.animations = filed[Len(blender.matched_objects)],
                !.pc = "process_unmatched_objects"]
    /\ HierarchyFrame

\* if unmatched_objects: animations["misc"] = {0: []} unless "misc" is there
\* already, and every unmatched object is filed as (obj, i) under
\* animations["misc"][0]; the subscript [0] raises KeyError when the
\* animation "misc" of the matched objects has no frame 0
process_unmatched_objects ==
    /\ blender # <<>> /\ blender.pc = "process_unmatched_objects"
    /\ LET animations == blender.animations
           present == \E a \in 1..Len(animations) : animations[a].anim_name = misc_anim
           a == CHOOSE a \in 1..Len(animations) : animations[a].anim_name = misc_anim
           filed[n \in 0..Len(blender.unmatched_objects)] ==
                IF n = 0
                THEN IF present THEN animations
                     ELSE Append(animations,
                                 [anim_name |-> misc_anim,
                                  frames |-> <<[frame_num |-> 0, objects |-> <<>>]>>])
                ELSE append_link(filed[n - 1], misc_anim, 0,
                                 <<blender.unmatched_objects[n], n - 1>>)
       IN blender' =
            IF blender.unmatched_objects = <<>>
            THEN [blender EXCEPT !.pc = "create_animation_object"]
            ELSE IF present /\ \A f \in 1..Len(animations[a].frames) :
                                    animations[a].frames[f].frame_num # 0
            THEN [blender EXCEPT !.pc = "raised"]
            ELSE [blender EXCEPT
                    !.animations = filed[Len(blender.unmatched_objects)],
                    !.pc = "create_animation_object"]
    /\ HierarchyFrame

\* build_hierarchy, for anim_name, frames in animations.items(): the
\* animation object is created under the root (the keys of a dict are
\* distinct, so unique_anim_name is anim_name); after the last animation
\* build_hierarchy returns and process_gltf_structure returns True
create_animation_object ==
    /\ blender # <<>> /\ blender.pc = "create_animation_object"
    /\ blender' =
        IF blender.anim > Len(blender.animations)
        THEN [blender EXCEPT !.pc = "returned"]
        ELSE [blender EXCEPT
                !.created = Append(@, <<blender.animations[blender.anim].anim_name>>),
                !.frame = 1,
                !.pc = "create_frame_object"]
    /\ HierarchyFrame

\* for frame_num, objects in frames.items(): the frame object
\* frame_{frame_num:03d} is created under the animation object
create_frame_object ==
    /\ blender # <<>> /\ blender.pc = "create_frame_object"
    /\ LET animation_entry == blender.animations[blender.anim]
       IN blender' =
            IF blender.frame > Len(animation_entry.frames)
            THEN [blender EXCEPT !.anim = @ + 1, !.pc = "create_animation_object"]
            ELSE [blender EXCEPT
                    !.created = Append(@,
                        <<animation_entry.anim_name,
                          <<"f", "r", "a", "m", "e", "_">>
                            \o FormatInt(animation_entry.frames[blender.frame].frame_num, 3)>>),
                    !.link = 1,
                    !.pc = "create_link_object"]
    /\ HierarchyFrame

\* for obj, link_num, material_index in objects: an entry of three values
\* is unpacked and create_link_object sets obj.parent = frame_obj; an entry
\* of any other length raises ValueError, which nothing catches
create_link_object ==
    /\ blender # <<>> /\ blender.pc = "create_link_object"
    /\ LET objects == blender.animations[blender.anim].frames[blender.frame].objects
           entry == objects[blender.link]
       IN blender' =
            IF blender.link > Len(objects)
            THEN [blender EXCEPT !.frame = @ + 1, !.pc = "create_frame_object"]
            ELSE IF Len(entry) = 3
            THEN [blender EXCEPT
                    !.parent[entry[1]] = blender.created[Len(blender.created)],
                    !.link = @ + 1]
            ELSE [blender EXCEPT !.pc = "raised"]
    /\ HierarchyFrame

NextHierarchy ==
    \/ ClassifyObjects
    \/ process_matched_objects
    \/ process_unmatched_objects
    \/ create_animation_object
    \/ create_frame_object
    \/ create_link_object

SpecHierarchy == InitHierarchy /\ [][NextHierarchy]_vars

(***************************************************************************)
(* lib/export_fbx_binary.py: export_to_fbx_binary as run.py's main calls   *)
(* it.  The Blender subprocess, the clock and the user at the keyboard     *)
(* act beside it.  stdout is the number of lines waiting in the pipe of    *)
(* the subprocess; a read of the pipe returns a line when one waits,       *)
(* returns nothing at end of file and blocks otherwise.                    *)
(***************************************************************************)

\* export_config.BLENDER_TIMEOUT as the module defines it
BLENDER_TIMEOUT == 600

\* --timeout as argparse hands it over: 600 is the default for an absent
\* option
ArgTimeouts == {0, 2, BLENDER_TIMEOUT}

\* config['settings']['blender_timeout']: 0 - 1 stands for an absent key
ConfigTimeouts == {0 - 1, 0, 3}

\* the readings of time.time() that lie on either side of the timeouts
Instants == {0, 2, 4, BLENDER_TIMEOUT + 1}

\* the modules are imported (run.py:4-7): export_fbx_binary has bound its
\* own name BLENDER_TIMEOUT to the value of export_config's
InitBinary ==
    /\ model = <<>>
    /\ textures_on_disk = {}
    /\ CallState("not_called")
    /\ heap = <<>> /\ threads = <<>> /\ load = <<>>
    /\ MATERIAL_CACHE = <<>> /\ cache_added = <<>> /\ cache_lookup = <<>>
    /\ blender = <<>>
    /\ \E t \in ArgTimeouts, c \in ConfigTimeouts :
        binary = [pc |-> "main", args_timeout |-> t, config_timeout |-> c,
                  export_config |-> BLENDER_TIMEOUT, imported |-> BLENDER_TIMEOUT,
                  blender_timeout |-> 0, blender_path |-> FALSE,
                  temp_dir |-> "none", process |-> "none", returncode |-> 0,
                  stdout |-> 0, stdout_open |-> FALSE, output_file |-> FALSE,
                  now |-> 0, start_time |-> 0, elapsed |-> 0,
                  success |-> FALSE, raised |-> "none", export_to_fbx |-> 0,
                  failure |-> "none"]

BinaryFrame ==
    UNCHANGED <<model, model_in, pc, anim_idx, frame_idx, link_idx,
                materials, nodes, meshes, accessors, vertex_byte_array,
                index_byte_array, anim_name_counts, anim_name_indexer,
                warnings, emitted, gltf_model, files, textures_on_disk,
                stage, first, fbx, heap, threads, load,
                MATERIAL_CACHE, cache_added, cache_lookup, blender>>

\* binary after a call of export_to_fbx(model, output_path) that returns
\* (position next) or raises (position handler, the exception pending)
AsciiExport(b, raises, next, handler) ==
    [b EXCEPT !.export_to_fbx = @ + 1,
              !.raised = IF raises THEN "Exception" ELSE @,
              !.pc = IF raises THEN handler ELSE next]

\* run.py's main: if args.timeout: export_config.BLENDER_TIMEOUT = args.timeout,
\* then the call of export_to_fbx_binary
main ==
    /\ binary # <<>> /\ binary.pc = "main"
    /\ binary' = [binary EXCEPT
                    !.export_config = IF binary.args_timeout # 0
                                      THEN binary.args_timeout ELSE @,
                    !.pc = "find_blender"]
    /\ BinaryFrame

\* the search for Blender and the choice of blender_timeout: the value of
\* the config file when it is a positive number, else the name
\* BLENDER_TIMEOUT of this module; without Blender the ASCII export is
\* called and the function returns
FindBlender ==
    /\ binary # <<>> /\ binary.pc = "find_blender"
    /\ \E found \in BOOLEAN, raises \in BOOLEAN :
        LET chosen == [binary EXCEPT
                        !.blender_path = found,
                        !.blender_timeout =
                            IF binary.config_timeout > 0
                            THEN binary.config_timeout ELSE binary.imported]
        IN binary' =
            IF found
            THEN [chosen EXCEPT !.pc = "mkdtemp"]
            ELSE AsciiExport([chosen EXCEPT !.failure = "no_blender"],
                             raises, "returned", "propagated")
    /\ BinaryFrame

\* temp_dir = tempfile.mkdtemp(); inside the try block export_to_gltf and
\* the copying of the textures, any of which may raise
ExportGltf ==
    /\ binary # <<>> /\ binary.pc = "mkdtemp"
    /\ \E raises \in BOOLEAN :
        binary' = [binary EXCEPT
                    !.temp_dir = "created",
                    !.raised = IF raises THEN "Exception" ELSE @,
                    !.pc = IF raises THEN "finally" ELSE "find_script"]
    /\ BinaryFrame

\* a return from inside the try block that the finally clause does not see
FindScript_ReturnsPastFinally ==
    /\ binary # <<>> /\ binary.pc = "find_script"
    /\ \E found \in BOOLEAN, raises \in BOOLEAN :
        binary' =
            IF found
            THEN [binary EXCEPT !.pc = "Popen"]
            ELSE AsciiExport([binary EXCEPT !.failure = "no_script"],
                             raises, "returned", "propagated")
    /\ BinaryFrame

\* the Blender script is copied from the first of four places that has
\* one; with none the ASCII export is called and the function returns
\* from inside the try block
FindScript ==
    /\ binary # <<>> /\ binary.pc = "find_script"
    /\ \E found \in BOOLEAN, raises \in BOOLEAN :
        binary' =
            IF found
            THEN [binary EXCEPT !.pc = "Popen"]
            ELSE AsciiExport([binary EXCEPT !.failure = "no_script"],
                             raises, "finally", "finally")
    /\ BinaryFrame

\* start_time = time.time(); process = subprocess.Popen(cmd, ...), which
\* may raise: the except clause of the outer try block takes over
Popen ==
    /\ binary # <<>> /\ binary.pc = "Popen"
    /\ \E raises \in BOOLEAN :
        binary' =
            IF raises
            THEN [binary EXCEPT !.failure = "launch", !.pc = "except"]
            ELSE [binary EXCEPT
                    !.start_time = binary.now,
                    !.process = "running", !.stdout_open = TRUE,
                    !.pc = "poll"]
    /\ BinaryFrame

\* while process.poll() is None: elapsed = time.time() - start_time
poll ==
    /\ binary # <<>> /\ binary.pc = "poll"
    /\ binary' =
        IF binary.process = "running"
        THEN [binary EXCEPT !.elapsed = binary.now - binary.start_time,
                            !.pc = "readline"]
        ELSE [binary EXCEPT !.pc = "communicate"]
    /\ BinaryFrame

\* while True: output = process.stdout.readline(); a line is appended and
\* the next one read; only the empty result at end of file leaves the loop
readline ==
    /\ binary # <<>> /\ binary.pc = "readline"
    /\ binary.stdout > 0 \/ ~binary.stdout_open
    /\ binary' =
        IF binary.stdout > 0
        THEN [binary EXCEPT !.stdout = @ - 1]
        ELSE [binary EXCEPT !.pc = "check_timeout"]
    /\ BinaryFrame

\* if elapsed > blender_timeout: terminate, sleep, kill if still alive,
\* break; else sleep and poll again
check_timeout ==
    /\ binary # <<>> /\ binary.pc = "check_timeout"
    /\ \E signal \in {15, 9} :
        binary' =
            IF binary.elapsed > binary.blender_timeout
            THEN [binary EXCEPT
                    !.process = "exited",
                    !.returncode = IF binary.process = "running" THEN 0 - signal ELSE @,
                    !.failure = IF binary.process = "running" THEN "timeout" ELSE @,
                    !.pc = "communicate"]
            ELSE [binary EXCEPT !.pc = "poll"]
    /\ BinaryFrame

\* process.communicate() waits for the process to end; success is set when
\* the return code is 0 and the output file is there and not empty, and
\* also when the process failed and the output file is there and not empty
communicate ==
    /\ binary # <<>> /\ binary.pc = "communicate"
    /\ binary.process = "exited"
    /\ binary' =
        [binary EXCEPT
            !.failure = IF binary.returncode # 0 /\ @ = "none" THEN "returncode" ELSE @,
            !.success = IF binary.returncode = 0 /\ binary.output_file THEN TRUE
                        ELSE IF binary.output_file THEN TRUE
                        ELSE @,
            !.pc = "fallback"]
    /\ BinaryFrame

\* except KeyboardInterrupt, around the wait loop and communicate: the
\* process is terminated, and killed if still alive
KeyboardInterrupt ==
    /\ binary # <<>>
    /\ binary.pc \in {"poll", "readline", "check_timeout", "communicate"}
    /\ \E signal \in {15, 9} :
        binary' = [binary EXCEPT
                    !.process = "exited",
                    !.returncode = IF binary.process = "running" THEN 0 - signal ELSE @,
                    !.failure = "interrupt",
                    !.pc = "fallback"]
    /\ BinaryFrame

\* if not success: export_to_fbx(model, output_path), inside the outer try
fallback ==
    /\ binary # <<>> /\ binary.pc = "fallback"
    /\ \E raises \in BOOLEAN :
        binary' =
            IF binary.success
            THEN [binary EXCEPT !.pc = "finally"]
            ELSE [AsciiExport(binary, raises, "finally", "except")
                    EXCEPT !.raised = "none"]
    /\ BinaryFrame

\* except Exception of the outer try: export_to_fbx(model, output_path)
except ==
    /\ binary # <<>> /\ binary.pc = "except"
    /\ \E raises \in BOOLEAN :
        binary' = AsciiExport(binary, raises, "finally", "finally")
    /\ BinaryFrame

\* finally: shutil.rmtree(temp_dir) is tried; then the function returns or
\* the pending exception propagates
finally ==
    /\ binary # <<>> /\ binary.pc = "finally"
    /\ binary' = [binary EXCEPT
                    !.temp_dir = "rmtree",
                    !.pc = IF binary.raised = "none" THEN "returned" ELSE "propagated"]
    /\ BinaryFrame

\* the Blender subprocess: it prints a line, writes the output file, closes
\* its stdout, or exits with a return code
Blender ==
    /\ binary # <<>> /\ binary.process = "running"
    /\ \/ /\ binary.stdout_open /\ binary.stdout = 0
          /\ binary' = [binary EXCEPT !.stdout = 1]
       \/ /\ ~binary.output_file
          /\ binary' = [binary EXCEPT !.output_file = TRUE]
       \/ /\ binary.stdout_open
          /\ binary' = [binary EXCEPT !.stdout_open = FALSE]
       \/ \E code \in {0, 1} :
            binary' = [binary EXCEPT !.process = "exited", !.returncode = code,
                                     !.stdout_open = FALSE]
    /\ BinaryFrame

\* time passes while the subprocess runs
Tick ==
    /\ binary # <<>> /\ binary.process = "running"
    /\ \E later \in Instants :
        /\ later > binary.now
        /\ binary' = [binary EXCEPT !.now = later]
    /\ BinaryFrame

\* the steps of the Python interpreter that runs export_to_fbx_binary
Interpreter ==
    \/ main
    \/ FindBlender
    \/ ExportGltf
    \/ FindScript
    \/ Popen
    \/ poll
    \/ readline
    \/ check_timeout
    \/ communicate
    \/ fallback
    \/ except
    \/ finally

NextBinary ==
    \/ Interpreter
    \/ KeyboardInterrupt
    \/ Blender
    \/ Tick

SpecBinary == InitBinary /\ [][NextBinary]_vars

\* the interpreter runs the next statement whenever it is not blocked; the
\* subprocess, the clock and the user are under no obligation
SpecBinaryLive == SpecBinary /\ WF_vars(Interpreter)

Next ==
    \/ CopyTextures
    \/ BuildMaterials
    \/ CountAnimationNames
    \/ BeginAnimation
    \/ SkipFrame
    \/ BeginFrame
    \/ SkipLinkError
    \/ SkipEmptyPoints
    \/ SkipEmptyTriangles
    \/ EmitLink
    \/ Finish

Spec == Init /\ [][Next]_vars

\* one call of export_to_gltf where texture files are found
SpecFiles == InitFiles /\ [][Next]_vars

\* a whole run of run.py's main on a decoded model
NextRun ==
    \/ Next
    \/ FbxAsciiOnly
    \/ FbxWithoutBlender
    \/ FbxBinaryExportGltf
    \/ BlenderSucceeds
    \/ BlenderFails

SpecRun == Init /\ [][NextRun]_vars

(***************************************************************************)
(* Reading the output back: the accessors of the k-th emitted link         *)
(* (k = 1, 2, ...) and the floats an accessor designates in the vertex     *)
(* stream.                                                                 *)
(***************************************************************************)
PositionAccessor(k) == accessors[(3 * k) - 2]
UVAccessor(k)       == accessors[(3 * k) - 1]
IndexAccessor(k)    == accessors[3 * k]

\* the bytes [offset, offset + n) of a stream
BytesAt(bytes, offset, n) == SubSeq(bytes, offset + 1, offset + n)

\* the count tuples of width floats stored from byte offset on
TuplesAt(bytes, offset, count, width) ==
    [t \in 1..count |->
        [j \in 1..width |->
            unpack_f(BytesAt(bytes, offset + (4 * ((width * (t - 1)) + (j - 1))), 4))]]

\* the pool entries of the model as it was handed in, for an emitted link
PointsOf(e) == At(model_in.points_data, e.mesh_link.points)
UVOf(e) == At(model_in.texture_coordinates_data, e.mesh_link.texture_coordinates)

\* the pool references of a link resolve to non-empty points and triangles
Resolvable(m, l) ==
    /\ l.points < Len(m.points_data)
    /\ l.triangles < Len(m.triangle_data)
    /\ l.texture_coordinates < Len(m.texture_coordinates_data)
    /\ Len(At(m.points_data, l.points)) > 0
    /\ Len(At(m.triangle_data, l.triangles)) > 0

\* link w of the work list has been emitted
IsEmitted(w) ==
    \E k \in 1..Len(emitted) :
        /\ emitted[k].anim = w.anim
        /\ emitted[k].frame = w.frame
        /\ emitted[k].link = w.link

(***************************************************************************)
(* C1  UV reconciliation.  For every emitted link the UV accessor's count  *)
(* equals the position accessor's count, which is len(points); the UVs in  *)
(* the stream are the pool entry's UVs in order followed by (0,0) entries  *)
(* when the entry is shorter than the points, and its first len(points)    *)
(* UVs otherwise; and a resolvable link whose UV count differs from its    *)
(* point count is emitted, not rejected.                                   *)
(***************************************************************************)
C1_UVReconciliation ==
    /\ \A k \in 1..Len(emitted) :
        LET n   == Len(PointsOf(emitted[k]))
            uv  == UVOf(emitted[k])
            out == TuplesAt(vertex_byte_array, UVAccessor(k).byteOffset,
                            UVAccessor(k).count, 2)
        IN  /\ UVAccessor(k).count = PositionAccessor(k).count
            /\ PositionAccessor(k).count = n
            /\ Len(out) = n
            /\ \A j \in 1..n :
                out[j] = IF j <= Len(uv) THEN uv[j] ELSE <<0, 0>>
    /\ pc = "done" =>
        \A j \in 1..Len(WorkList(model_in)) :
            LET w == WorkList(model_in)[j]
            IN  Resolvable(model_in, w.mesh_link) => IsEmitted(w)

\* a finished call that emitted a link with fewer UVs than points and a link
\* with more UVs than points
C1_Witness ==
    /\ pc = "done"
    /\ \E k \in 1..Len(emitted) : Len(UVOf(emitted[k])) < Len(PointsOf(emitted[k]))
    /\ \E k \in 1..Len(emitted) : Len(UVOf(emitted[k])) > Len(PointsOf(emitted[k]))

(***************************************************************************)
(* C2  The serializer only reads the Model: the pools, meshes, materials   *)
(* and animations are what they were when the call started.                *)
(***************************************************************************)
C2_ModelOnlyRead == model = model_in

(***************************************************************************)
(* C3  Dangling material substitution.  A link whose material index is not *)
(* an index of model.materials is emitted all the same: its node exists,   *)
(* its primitive is bound to material 0, a warning is recorded for it, and *)
(* the links after it are processed as usual (every resolvable link of the *)
(* model is emitted when the call ends).                                   *)
(***************************************************************************)
C3_DanglingMaterial ==
    /\ \A k \in 1..Len(emitted) :
        emitted[k].mesh_link.material >= Len(model_in.materials) =>
            /\ k <= Len(nodes)
            /\ nodes[k].mesh = k - 1
            /\ meshes[k].material = 0
            /\ \E i \in 1..Len(warnings) :
                /\ warnings[i].kind = "invalid_material_index"
                /\ warnings[i].anim = emitted[k].anim
                /\ warnings[i].frame = emitted[k].frame
                /\ warnings[i].link = emitted[k].link
    /\ pc = "done" =>
        \A j \in 1..Len(WorkList(model_in)) :
            LET w == WorkList(model_in)[j]
            IN  (/\ Resolvable(model_in, w.mesh_link)
                 /\ \E i \in 1..j :
                        WorkList(model_in)[i].mesh_link.material
                            >= Len(model_in.materials))
                => IsEmitted(w)

\* a finished call on a model with materials where a link with material =
\* len(materials) was emitted and another link was emitted after it
C3_Witness ==
    /\ pc = "done"
    /\ Len(model_in.materials) > 0
    /\ \E k \in 1..Len(emitted) :
        /\ emitted[k].mesh_link.material = Len(model_in.materials)
        /\ k < Len(emitted)

(***************************************************************************)
(* C4  No dangling material reference in the output: the material index of *)
(* every emitted primitive is an index of the emitted materials table.     *)
(***************************************************************************)
C4_NoDanglingMaterial ==
    \A k \in 1..Len(meshes) :
        meshes[k].material >= 0 /\ meshes[k].material < Len(materials)

(***************************************************************************)
(* C5  Link isolation.  A link with an out-of-range pool index or an empty *)
(* points or triangles array is skipped with a warning and never stops the *)
(* call; the nodes, meshes, accessors (contents and byte offsets) and the  *)
(* two byte streams are those of the model without its bad links.          *)
(***************************************************************************)
SkipKinds == {"error_processing_mesh", "empty_points", "empty_triangles"}

\* the model with the links that do not resolve taken out of every mesh
WithoutBadLinks(m) ==
    [m EXCEPT !.meshes =
        [i \in 1..Len(m.meshes) |->
            [links |-> SelectSeq(m.meshes[i].links,
                                 LAMBDA l : Resolvable(m, l))]]]

\* in the link loop one of the four outcomes of the loop body applies to the
\* link at hand, so the call goes on to the next link
LinkHandled ==
    \/ LookupFails(model, mesh_link)
    \/ At(model.points_data, mesh_link.points) = <<>>
    \/ At(model.triangle_data, mesh_link.triangles) = <<>>
    \/ ~LinkSkipped(model, mesh_link)

C5_LinkIsolation ==
    /\ pc = "next_link" => LinkHandled
    /\ pc = "done" =>
        /\ Out = Export(WithoutBadLinks(model_in))
        /\ \A j \in 1..Len(WorkList(model_in)) :
            LET w == WorkList(model_in)[j]
            IN  ~Resolvable(model_in, w.mesh_link) =>
                    /\ ~IsEmitted(w)
                    /\ \E i \in 1..Len(warnings) :
                        /\ warnings[i].kind \in SkipKinds
                        /\ warnings[i].anim = w.anim
                        /\ warnings[i].frame = w.frame
                        /\ warnings[i].link = w.link

\* a finished call that met a bad link and emitted a link after it
C5_Witness ==
    /\ pc = "done"
    /\ \E i, j \in 1..Len(WorkList(model_in)) :
        /\ i < j
        /\ ~Resolvable(model_in, WorkList(model_in)[i].mesh_link)
        /\ IsEmitted(WorkList(model_in)[j])

(***************************************************************************)
(* C6  Frame count.  The frame-groups of an animation are the frame        *)
(* indices that own at least one node.                                     *)
(***************************************************************************)
FrameGroups(a) ==
    {emitted[k].frame : k \in {i \in 1..Len(emitted) : emitted[i].anim = a}}

\* the frames of animation a that can own a node: the mesh index is in range
\* and the mesh has a link that resolves
FramesWithLinks(a) ==
    LET fr == At(model_in.animations, a).meshes
    IN  {f \in 0..(Len(fr) - 1) :
            /\ At(fr, f) < Len(model_in.meshes)
            /\ \E l \in 1..Len(At(model_in.meshes, At(fr, f)).links) :
                Resolvable(model_in, At(model_in.meshes, At(fr, f)).links[l])}

VertexBytes(k) ==
    BytesAt(vertex_byte_array, PositionAccessor(k).byteOffset,
            12 * PositionAccessor(k).count)

C8_PoolSharing ==
    \A k1, k2 \in 1..Len(emitted) :
        emitted[k1].mesh_link.points = emitted[k2].mesh_link.points =>
            /\ VertexBytes(k1) = VertexBytes(k2)
            /\ PositionAccessor(k1).min = PositionAccessor(k2).min
            /\ PositionAccessor(k1).max = PositionAccessor(k2).max
            /\ PositionAccessor(k1).count = PositionAccessor(k2).count

\* two emitted links of different frames sharing a points entry, with a link
\* of another points entry emitted between them
C8_Witness ==
    \E k1, k2, k3 \in 1..Len(emitted) :
        /\ k1 < k3 /\ k3 < k2
        /\ emitted[k1].mesh_link.points = emitted[k2].mesh_link.points
        /\ emitted[k1].mesh_link.points # emitted[k3].mesh_link.points
        /\ emitted[k1].frame # emitted[k2].frame

(***************************************************************************)
(* C9  Name disambiguation.  The occurrence index of an animation is the   *)
(* number of animations before it in model.animations that carry its name. *)
(***************************************************************************)
Occurrence(a) ==
    Cardinality({b \in 0..(a - 1) :
        At(model_in.animations, b).name = At(model_in.animations, a).name})

\* C9 as claimed: every node name starts with the animation name followed by
\* the two-digit occurrence index of the animation among those of its name
C9_OccurrenceCounter ==
    \A k \in 1..Len(emitted) :
        StartsWith(nodes[k].name,
            At(model_in.animations, emitted[k].anim).name \o <<"_">>
                \o FormatInt(Occurrence(emitted[k].anim), 2) \o <<"_">>)

(***************************************************************************)
(* C10  Node name format.  Every node is named                             *)
(* {animation}_{occurrence:02d}_frame{frame:03d}_{material_name}, where    *)
(* material_name is the name of the material its primitive is bound to     *)
(* (stated for the primitives whose material index is in the table).       *)
(***************************************************************************)
C10_NodeNameFormat ==
    \A k \in 1..Len(emitted) :
        meshes[k].material < Len(model_in.materials) =>
          nodes[k].name =
            At(model_in.animations, emitted[k].anim).name \o <<"_">>
                \o FormatInt(Occurrence(emitted[k].anim), 2)
                \o <<"_", "f", "r", "a", "m", "e">>
                \o FormatInt(emitted[k].frame, 3) \o <<"_">>
                \o At(model_in.materials, meshes[k].material).name

(***************************************************************************)
(* C11  Unique node names.  No two nodes emitted by one call carry the     *)
(* same name.                                                              *)
(***************************************************************************)
C11_UniqueNodeNames ==
    \A k1, k2 \in 1..Len(nodes) :
        k1 # k2 => nodes[k1].name # nodes[k2].name

(***************************************************************************)
(* C12  Accessor byte offsets.  For the k-th emitted link the position     *)
(* accessor starts where the vertex stream ended before the link (20 bytes *)
(* per vertex of every link emitted before it), the UV accessor starts 12  *)
(* bytes per vertex later, the index accessor starts where the index       *)
(* stream ended before the link (4 bytes per index of every link emitted   *)
(* before it) and designates the link's indices; the byte ranges of two    *)
(* accessors of one stream never overlap, and every range lies within the  *)
(* stream and, once the document is built, within the declared byteLength. *)
(***************************************************************************)
TrianglesOf(e) == At(model_in.triangle_data, e.mesh_link.triangles)

RECURSIVE VertexBytesBefore(_)
\* the bytes the links emitted before the k-th one put into the vertex stream
VertexBytesBefore(k) ==
    IF k = 1 THEN 0
    ELSE VertexBytesBefore(k - 1) + (20 * Len(PointsOf(emitted[k - 1])))

RECURSIVE IndexBytesBefore(_)
\* the bytes the links emitted before the k-th one put into the index stream
IndexBytesBefore(k) ==
    IF k = 1 THEN 0
    ELSE IndexBytesBefore(k - 1) + (4 * Len(TrianglesOf(emitted[k - 1])))

\* the bytes of one element of an accessor
ElementSize(acc) ==
    IF acc.type = "VEC3" THEN 12 ELSE IF acc.type = "VEC2" THEN 8 ELSE 4

\* the end of the byte range of an accessor
RangeEnd(acc) == acc.byteOffset + (acc.count * ElementSize(acc))


C12_ByteOffsets ==
    /\ Len(accessors) = 3 * Len(emitted)
    /\ \A k \in 1..Len(emitted) :
        /\ PositionAccessor(k).byteOffset = VertexBytesBefore(k)
        /\ UVAccessor(k).byteOffset =
                PositionAccessor(k).byteOffset + (12 * PositionAccessor(k).count)
        /\ IndexAccessor(k).byteOffset = IndexBytesBefore(k)
        /\ [j \in 1..IndexAccessor(k).count |->
                unpack_I(BytesAt(index_byte_array,
                                 IndexAccessor(k).byteOffset + (4 * (j - 1)), 4))]
            = TrianglesOf(emitted[k])
    /\ \A i, j \in 1..Len(accessors) :
        (i # j /\ accessors[i].bufferView = accessors[j].bufferView) =>
            \/ RangeEnd(accessors[i]) <= accessors[j].byteOffset
            \/ RangeEnd(accessors[j]) <= accessors[i].byteOffset
    /\ \A i \in 1..Len(accessors) :
        /\ accessors[i].byteOffset >= 0
        /\ RangeEnd(accessors[i]) <=
                (IF accessors[i].bufferView = 0 THEN Len(vertex_byte_array)
                 ELSE Len(index_byte_array))
        /\ pc = "done" =>
            RangeEnd(accessors[i]) <=
                gltf_model.buffers[accessors[i].bufferView + 1].byteLength
    /\ pc = "done" =>
        /\ gltf_model.buffers[1].byteLength = Len(vertex_byte_array)
        /\ gltf_model.buffers[2].byteLength = Len(index_byte_array)

\* a finished call that emitted a link, skipped the next one and emitted a
\* third one after it
C12_Witness ==
    /\ pc = "done"
    /\ \E i, j, k \in 1..Len(WorkList(model_in)) :
        /\ i < j /\ j < k
        /\ IsEmitted(WorkList(model_in)[i])
        /\ ~Resolvable(model_in, WorkList(model_in)[j].mesh_link)
        /\ IsEmitted(WorkList(model_in)[k])

(***************************************************************************)
(* C13  The concrete scenario.  The model with one material "skin", one    *)
(* mesh of one link (material 0, points (0,0,0) (1,0,0) (0,1,0), triangle  *)
(* 0 1 2, UVs (0,0) (1,0) (0,1)) and one animation "idle" with meshes [0]  *)
(* serializes to exactly one node with a position accessor of 3 vertices   *)
(* and the bounds stated.                                                  *)
(***************************************************************************)
\* a tuple of floats as the halves of the model
Halves(t) == [i \in 1..Len(t) |-> 2 * t[i]]

\* the scenario ends with one node whose position accessor has 3 vertices,
\* the transformed points of the link, and the bounds lo and hi
ScenarioBounds(lo, hi) ==
    (pc = "done" /\ model_in = ScenarioModel) =>
        /\ Len(nodes) = 1
        /\ Len(emitted) = 1
        /\ PositionAccessor(1).count = 3
        /\ TuplesAt(vertex_byte_array, PositionAccessor(1).byteOffset, 3, 3)
            = << Halves(<<-50, -50, -50>>), Halves(<<50, -50, -50>>),
                 Halves(<<-50, 50, -50>>) >>
        /\ PositionAccessor(1).min = Halves(lo)
        /\ PositionAccessor(1).max = Halves(hi)

\* C13 as claimed: min = (-50,-50,-50) and max = (50,-50,50)
C13_ScenarioAsClaimed == ScenarioBounds(<<-50, -50, -50>>, <<50, -50, 50>>)

\* C13 amended: min = (-50,-50,-50) and max = (50,50,-50), the per-axis
\* bounds of (-50,-50,-50), (50,-50,-50) and (-50,50,-50)
C13_Scenario == ScenarioBounds(<<-50, -50, -50>>, <<50, 50, -50>>)

\* the call on the scenario's model has ended with its node
C13_Witness ==
    /\ pc = "done"
    /\ model_in = ScenarioModel
    /\ Len(nodes) = 1

(***************************************************************************)
(* C14  One node per animation x frame x link.  When every mesh, pool and  *)
(* material reference of the model is in range and no referenced points or *)
(* triangles array is empty, the call emits one node for every link of the *)
(* mesh of every position of every animation, in the order of the loops:   *)
(* a mesh index yields its nodes once per occurrence, an animation without *)
(* meshes yields none.                                                     *)
(***************************************************************************)
\* every reference the call follows resolves: the mesh indices of the
\* animations, and the pool and material indices of the links of these meshes
AllInRange(m) ==
    \A a \in 1..Len(m.animations) :
        \A f \in 1..Len(m.animations[a].meshes) :
            /\ m.animations[a].meshes[f] < Len(m.meshes)
            /\ LET ls == At(m.meshes, m.animations[a].meshes[f]).links
               IN  \A l \in 1..Len(ls) :
                    /\ Resolvable(m, ls[l])
                    /\ ls[l].material < Len(m.materials)

\* the (animation, frame, link) positions of a model whose references resolve
LinkPositions(m) ==
    UNION {
        UNION {
            {<<a, f, l>> :
                l \in 0..(Len(At(m.meshes, At(At(m.animations, a).meshes, f)).links) - 1)} :
            f \in 0..(Len(At(m.animations, a).meshes) - 1)} :
        a \in 0..(Len(m.animations) - 1)}

\* p comes before q in the order of the three loops
LoopOrder(p, q) ==
    \/ p[1] < q[1]
    \/ p[1] = q[1] /\ p[2] < q[2]
    \/ p[1] = q[1] /\ p[2] = q[2] /\ p[3] < q[3]

C14_OneNodePerLink ==
    (pc = "done" /\ AllInRange(model_in)) =>
        /\ Len(nodes) = Cardinality(LinkPositions(model_in))
        /\ {<<emitted[k].anim, emitted[k].frame, emitted[k].link>> :
                k \in 1..Len(emitted)} = LinkPositions(model_in)
        /\ \A k \in 1..Len(nodes) : nodes[k].mesh = k - 1
        /\ \A j, k \in 1..Len(emitted) :
            j < k => LoopOrder(<<emitted[j].anim, emitted[j].frame, emitted[j].link>>,
                               <<emitted[k].anim, emitted[k].frame, emitted[k].link>>)

\* a finished call on a model whose references all resolve, with an animation
\* without meshes and an animation that shows one mesh of two links twice
C14_Witness ==
    /\ pc = "done"
    /\ AllInRange(model_in)
    /\ \E a \in 1..Len(model_in.animations) : model_in.animations[a].meshes = <<>>
    /\ \E a \in 1..Len(model_in.animations) :
        /\ Len(model_in.animations[a].meshes) = 2
        /\ model_in.animations[a].meshes[1] = model_in.animations[a].meshes[2]
    /\ Len(nodes) = 4

(***************************************************************************)
(* C15  Material table passthrough.  The materials table of the document   *)
(* has one entry per model material, in the model's order; entry i exposes *)
(* the index i, the name and the raw path of material i.                   *)
(***************************************************************************)
\* the texts an entry of the emitted materials table carries
ExposedTexts(entry) == {entry.name, entry.extras.original_name}

C15_MaterialPassthrough ==
    pc = "done" =>
        /\ Len(gltf_model.materials) = Len(model_in.materials)
        /\ \A k \in 1..Len(model_in.materials) :
            /\ gltf_model.materials[k].extras.original_index = k - 1
            /\ model_in.materials[k].name \in ExposedTexts(gltf_model.materials[k])
            /\ model_in.materials[k].path \in ExposedTexts(gltf_model.materials[k])

(***************************************************************************)
(* C16  No hidden state between calls.  The second export_to_gltf call of  *)
(* a run, made on the Model object the first call worked on, builds the    *)
(* same nodes (names and order), meshes, accessors and byte streams as the *)
(* first; its name counters are empty when it starts.                      *)
(***************************************************************************)
C16_SecondCallSame ==
    /\ (stage = "fbx_binary" /\ pc = "done") => Out = first.out
    /\ (stage = "fbx_binary" /\ pc \in {"copy_textures", "materials", "count_names"}) =>
        /\ anim_name_counts = <<>>
        /\ anim_name_indexer = <<>>
        /\ nodes = <<>>

\* the second call has ended on a model whose UV pool the first call
\* extended, with nodes emitted
C16_Witness ==
    /\ stage = "fbx_binary"
    /\ pc = "done"
    /\ first.model # model_in
    /\ Len(nodes) >= 2

(***************************************************************************)
(* C18  Pipeline ordering.  export_to_gltf writes no file before every     *)
(* animation, frame and link has been serialized: until the call has built *)
(* its document, no file has been written.                                 *)
(***************************************************************************)
C18_NoEarlyWrite == (stage = "gltf" /\ pc # "done") => files = {}

(***************************************************************************)
(* C20  A run on a model with semantic issues completes.  Every model of   *)
(* the runs is a decoded model whose only issues are out-of-range indices  *)
(* and empty arrays, so no run ends with an exception: the FBX exporters   *)
(* too leave out the offending link and write the rest.                    *)
(***************************************************************************)
C20_RunCompletes ==
    /\ stage # "aborted"
    /\ stage = "completed" =>
        \A j \in 1..Len(WorkList(model)) :
            LET w == WorkList(model)[j]
            IN  (fbx # <<>> /\ Resolvable(model, w.mesh_link)) =>
                    \E i \in 1..Len(fbx) :
                        fbx[i].kind = "Geometry" /\ fbx[i].id = geom_id(w)

(***************************************************************************)
(* C17  Parallel calls share no mutable state.  In every interleaving of   *)
(* two calls, each call that has ended has built what it builds when it    *)
(* runs alone on the model it was given, and in each call every UV         *)
(* accessor has the count of its position accessor.                        *)
(***************************************************************************)
C17_ParallelCallsIndependent ==
    \A t \in DOMAIN threads :
        /\ \A k \in 1..Len(threads[t].out.nodes) :
            threads[t].out.accessors[(3 * k) - 1].count
                = threads[t].out.accessors[(3 * k) - 2].count
        /\ threads[t].pc = "done" => threads[t].out = Export(threads[t].given)

C24_SkippedLinkNoEffect ==
    [][(pc = "next_link" /\ LinkSkipped(model, mesh_link)) =>
            (Out' = Out /\ model' = model /\ emitted' = emitted)]_vars

\* a link was skipped after another link had been emitted: the last warning
\* is that of a skip, and the output is not empty
C24_Witness ==
    /\ nodes # <<>>
    /\ vertex_byte_array # <<>>
    /\ warnings # <<>>
    /\ warnings[Len(warnings)].kind \in SkipKinds
    /\ \E k \in 1..Len(emitted) :
        \/ emitted[k].anim < warnings[Len(warnings)].anim
        \/ /\ emitted[k].anim = warnings[Len(warnings)].anim
           /\ emitted[k].frame < warnings[Len(warnings)].frame
        \/ /\ emitted[k].anim = warnings[Len(warnings)].anim
           /\ emitted[k].frame = warnings[Len(warnings)].frame
           /\ emitted[k].link < warnings[Len(warnings)].link

(***************************************************************************)
(* C25  Structural correspondence of the glTF document.  At every point of *)
(* the call, after any sequence of emitted and skipped links, there are    *)
(* three accessors and one mesh per node, node k refers to mesh k, and the *)
(* primitive of mesh k has accessors 3k, 3k+1 and 3k+2 as its POSITION,    *)
(* TEXCOORD_0 and indices; the scene of the finished document lists the    *)
(* node indices 0 .. n-1, each once.                                       *)
(***************************************************************************)
C25_StructuralCorrespondence ==
    /\ Len(accessors) = 3 * Len(nodes)
    /\ Len(meshes) = Len(nodes)
    /\ \A k \in 1..Len(nodes) :
        /\ nodes[k].mesh = k - 1
        /\ k <= Len(meshes) =>
            /\ meshes[k].POSITION = 3 * (k - 1)
            /\ meshes[k].TEXCOORD_0 = (3 * (k - 1)) + 1
            /\ meshes[k].indices = (3 * (k - 1)) + 2
    /\ pc = "done" =>
        /\ Len(gltf_model.scenes) = 1
        /\ Len(gltf_model.scenes[1].nodes) = Len(nodes)
        /\ \A i \in 0..(Len(nodes) - 1) :
            Cardinality({k \in 1..Len(nodes) : gltf_model.scenes[1].nodes[k] = i}) = 1

\* a finished call that emitted two links or more and skipped one after the
\* first of them
C25_Witness ==
    /\ pc = "done"
    /\ Len(nodes) >= 2
    /\ \E i \in 1..Len(warnings) :
        /\ warnings[i].kind \in SkipKinds
        /\ \/ emitted[1].anim < warnings[i].anim
           \/ /\ emitted[1].anim = warnings[i].anim
              /\ emitted[1].frame < warnings[i].frame
           \/ /\ emitted[1].anim = warnings[i].anim
              /\ emitted[1].frame = warnings[i].frame
              /\ emitted[1].link < warnings[i].link

(***************************************************************************)
(* C26  Object IDs of the ASCII FBX file.  In every file the exporter      *)
(* writes, the Geometry objects have IDs different from one another and    *)
(* from the ID of every Model, Material and Texture object of the file.    *)
(***************************************************************************)
C26_UniqueObjectIds ==
    \A i, j \in 1..Len(fbx) :
        (/\ i # j
         /\ fbx[i].kind = "Geometry"
         /\ fbx[j].kind \in {"Geometry", "Model", "Material", "Texture"})
            => fbx[i].id # fbx[j].id

(***************************************************************************)
(* C29  Material cache lookup.  After any sequence of calls, what          *)
(* get_cached_material(n, t) returns is the material of the latest         *)
(* add_material_to_cache(n, t, m) since the last clear_cache, or None when *)
(* there was none: never a material added for another pair.                *)
(***************************************************************************)
C29_ExactLookup ==
    cache_lookup # <<>> => cache_lookup.returned = cache_lookup.added

\* C27: when the scene holds a mesh object whose name extract_model_info
\* cannot parse, process_gltf_structure ends by returning, build_hierarchy
\* having completed, with every such object parented under misc / frame_000
C27_UnmatchedKept ==
    (blender # <<>> /\ blender.pc \in {"returned", "raised"}) =>
        /\ blender.pc = "returned"
        /\ \A k \in 1..Len(blender.objects) :
                blender.objects[k].anim_name = None =>
                    blender.parent[k] =
                        <<misc_anim, <<"f", "r", "a", "m", "e", "_", "0", "0", "0">>>>

\* C21: whenever Blender is not available or the conversion failed (no
\* Blender script, a non-zero return code, termination after the timeout,
\* an interrupt by the user, an exception at launch), export_to_fbx has been
\* called by the time export_to_fbx_binary is left
C21_FallbackOnEveryFailure ==
    (binary # <<>> /\ binary.pc \in {"returned", "propagated"}
        /\ binary.failure # "none") =>
        binary.export_to_fbx >= 1

\* C22: once the subprocess is still running with more than the timeout
\* elapsed, export_to_fbx_binary eventually returns, whatever the
\* subprocess does
C22_TimeoutIsMaximumWait ==
    (binary # <<>> /\ binary.process = "running"
        /\ binary.now - binary.start_time > binary.blender_timeout)
    ~> (binary.pc \in {"returned", "propagated"})

\* C23: with --timeout N and no blender_timeout in config.json, the timeout
\* the wait loop compares the elapsed time with is N
C23_TimeoutOption ==
    (binary # <<>> /\ binary.pc \in {"poll", "readline", "check_timeout"}
        /\ binary.args_timeout # 0 /\ binary.config_timeout = 0 - 1) =>
        binary.blender_timeout = binary.args_timeout

\* C28: on every way out of export_to_fbx_binary after the temporary
\* directory was created, by return or by exception, the removal of the
\* directory has been attempted
C28_TempDirCleanup ==
    (binary # <<>> /\ binary.pc \in {"returned", "propagated"}
        /\ binary.temp_dir # "none") =>
        binary.temp_dir = "rmtree"

\* the fallback raised, the except clause called export_to_fbx again and
\* that raised too: the exception leaves the function after the removal
C28_Witness ==
    /\ binary # <<>> /\ binary.pc = "propagated"
    /\ binary.export_to_fbx = 2
    /\ binary.failure = "timeout"
    /\ binary.temp_dir = "rmtree"

====
